---- MODULE Spec2Model ----
(***************************************************************************)
(* Model of the skills-manager link orchestrator (src-tauri/src/lib.rs).   *)
(*                                                                         *)
(* The durable state of the program is the filesystem below a home root:   *)
(* one directory per agent of the catalog, the entry named <skill> inside  *)
(* it, and the global repository home/.agents/skills.  Every command is a  *)
(* function of that state; an action of the model is one whole command.    *)
(***************************************************************************)
EXTENDS Integers, Sequences, FiniteSets, TLC

VARIABLES fs, before, res, prev,     \* the link commands (Spec)
          home, created, detection,  \* agent detection (DetectSpec)
          tree, view,                \* the inventory scan and the agent detail (ViewSpec)
          text, meta, last,          \* the SKILL.md parser and formatter (ParserSpec)
          unlink,                    \* unlinkFromAll call by call (RaceSpec)
          disk, earlier, ran             \* the commands on paths below home (PathSpec)

linkVars == <<fs, before, res, prev>>
detectVars == <<home, created, detection>>
viewVars == <<tree, view>>
parserVars == <<text, meta, last>>
raceVars == <<unlink>>
pathVars == <<disk, earlier, ran>>

vars == <<fs, before, res, prev, home, created, detection, tree, view, text, meta, last,
          unlink, disk, earlier, ran>>

\* The variables a specification does not use stay empty.
LinkUnused == fs = << >> /\ before = << >> /\ res = << >> /\ prev = << >>
DetectUnused == home = {} /\ created = {} /\ detection = << >>
ViewUnused == tree = << >> /\ view = << >>
ParserUnused == text = << >> /\ meta = << >> /\ last = << >>
RaceUnused == unlink = << >>
PathUnused == disk = << >> /\ earlier = << >> /\ ran = << >>

----------------------------------------------------------------------------
(* Bounds *)

\* Number of catalog entries (a prefix of the 27-entry catalog) the model runs over.
NumAgents == 2

----------------------------------------------------------------------------
(* Agent catalog: lib.rs get_agent_definition_list *)

AgentDefinitionList ==
    << [id |-> "amp",            name |-> "Amp",            path |-> ".config/agents/skills"],
       [id |-> "antigravity",    name |-> "Antigravity",    path |-> ".gemini/antigravity/global_skills"],
       [id |-> "claude-code",    name |-> "Claude Code",    path |-> ".claude/skills"],
       [id |-> "clawdbot",       name |-> "Clawdbot",       path |-> ".clawdbot/skills"],
       [id |-> "cline",          name |-> "Cline",          path |-> ".cline/skills"],
       [id |-> "codex",          name |-> "Codex",          path |-> ".codex/skills"],
       [id |-> "command-code",   name |-> "Command Code",   path |-> ".commandcode/skills"],
       [id |-> "continue",       name |-> "Continue",       path |-> ".continue/skills"],
       [id |-> "crush",          name |-> "Crush",          path |-> ".config/crush/skills"],
       [id |-> "cursor",         name |-> "Cursor",         path |-> ".cursor/skills"],
       [id |-> "droid",          name |-> "Droid",          path |-> ".factory/skills"],
       [id |-> "gemini-cli",     name |-> "Gemini CLI",     path |-> ".gemini/skills"],
       [id |-> "github-copilot", name |-> "GitHub Copilot", path |-> ".copilot/skills"],
       [id |-> "goose",          name |-> "Goose",          path |-> ".config/goose/skills"],
       [id |-> "kilo-code",      name |-> "Kilo Code",      path |-> ".kilocode/skills"],
       [id |-> "kiro-cli",       name |-> "Kiro CLI",       path |-> ".kiro/skills"],
       [id |-> "mcpjam",         name |-> "MCPJam",         path |-> ".mcpjam/skills"],
       [id |-> "opencode",       name |-> "OpenCode",       path |-> ".config/opencode/skills"],
       [id |-> "openhands",      name |-> "OpenHands",      path |-> ".openhands/skills"],
       [id |-> "pi",             name |-> "Pi",             path |-> ".pi/agent/skills"],
       [id |-> "qoder",          name |-> "Qoder",          path |-> ".qoder/skills"],
       [id |-> "qwen-code",      name |-> "Qwen Code",      path |-> ".qwen/skills"],
       [id |-> "roo-code",       name |-> "Roo Code",       path |-> ".roo/skills"],
       [id |-> "trae",           name |-> "Trae",           path |-> ".trae/skills"],
       [id |-> "windsurf",       name |-> "Windsurf",       path |-> ".codeium/windsurf/skills"],
       [id |-> "zencoder",       name |-> "Zencoder",       path |-> ".zencoder/skills"],
       [id |-> "neovate",        name |-> "Neovate",        path |-> ".neovate/skills"] >>

\* The catalog the model iterates: the first NumAgents entries, in catalog order.
Catalog == SubSeq(AgentDefinitionList, 1, NumAgents)

AgentIds == { Catalog[i].id : i \in 1..Len(Catalog) }

\* An id that is in no catalog entry (the "Agent not found" input).
UnknownAgent == "no-such-agent"

\* Skill names used as inputs: non-empty, no path separator, not hidden.
Skills == { "demo" }

----------------------------------------------------------------------------
(* Filesystem state below the home root                                    *)
(*                                                                         *)
(*   fs.agentDir[a]  what is at home/<agent path>:                         *)
(*        "absent"  nothing          "dir"    a writable directory          *)
(*        "rodir"   a directory without write permission                    *)
(*        "file"    a regular file                                          *)
(*   fs.entry[a][s]  what is at home/<agent path>/<s> (only inside a        *)
(*        directory): kind "absent" | "symlink" | "file" | "dir", and the   *)
(*        link target for a symlink                                         *)
(*   fs.globalRoot   whether home/.agents/skills exists                     *)
(*   fs.global[s]    what is at home/.agents/skills/<s>:                    *)
(*        "absent" | "dir" | "file"                                         *)
(***************************************************************************)

DirKinds == { "absent", "dir", "rodir", "file" }

\* home/.agents/skills/<skill_name>, as path components below home
GlobalSkillPath(s) == << ".agents/skills", s >>

\* A link target that is not the repository copy (and need not resolve).
ForeignTarget == << "elsewhere" >>

NoEntry == [kind |-> "absent", target |-> << >>]
FileEntry == [kind |-> "file", target |-> << >>]
DirEntry == [kind |-> "dir", target |-> << >>]
SymlinkEntry(t) == [kind |-> "symlink", target |-> t]

Entries(s) == { NoEntry, FileEntry, DirEntry,
                SymlinkEntry(GlobalSkillPath(s)), SymlinkEntry(ForeignTarget) }

IsDirectory(f, a) == f.agentDir[a] \in { "dir", "rodir" }

\* The filesystem states the program can meet: entries live only inside a
\* directory, repository copies only below an existing repository root.
WellFormed(f) ==
    /\ \A a \in AgentIds :
         ~IsDirectory(f, a) => \A s \in Skills : f.entry[a][s] = NoEntry
    /\ ~f.globalRoot => \A s \in Skills : f.global[s] = "absent"

FsStates ==
    { f \in [ agentDir : [AgentIds -> DirKinds],
              entry : { e \in [AgentIds -> [Skills -> UNION { Entries(s) : s \in Skills }]] :
                          \A a \in AgentIds : \A s \in Skills : e[a][s] \in Entries(s) },
              globalRoot : BOOLEAN,
              global : [Skills -> { "absent", "dir", "file" }] ] :
        WellFormed(f) }

----------------------------------------------------------------------------
(* Filesystem calls, as the commands use them.  A mutating call returns     *)
(* [ok, fs]: whether it succeeded and the filesystem afterwards.            *)
(* The calls fail for the reasons the state holds (a missing or occupied    *)
(* path, a parent that is no directory, a directory without write           *)
(* permission); every directory can be searched, so a probe sees what is    *)
(* there, and the home root itself can be written.                          *)

\* Path::exists on home/<agent path> (detect_agents_with_home)
Detected(f, a) == f.agentDir[a] # "absent"

\* Path::exists on home/.agents/skills/<skill_name>
GlobalSkillExists(f, s) == f.global[s] # "absent"

\* fs::symlink_metadata on home/<agent path>/<skill_name>: the kind of the
\* entry without following a final link, "absent" standing for Err(_).
SymlinkMetadata(f, a, s) ==
    IF IsDirectory(f, a) THEN f.entry[a][s].kind ELSE "absent"

SetEntry(f, a, s, e) == [f EXCEPT !.entry[a][s] = e]

\* fs::create_dir_all on home/<agent path>: Ok when it is or becomes a
\* directory, Err when a regular file is in the way.
CreateDirAll(f, a) ==
    CASE f.agentDir[a] = "absent" -> [ok |-> TRUE, fs |-> [f EXCEPT !.agentDir[a] = "dir"]]
      [] f.agentDir[a] = "file"   -> [ok |-> FALSE, fs |-> f]
      [] OTHER                    -> [ok |-> TRUE, fs |-> f]

\* symlink() with its two arguments exchanged in meaning: the link does not
\* point at the repository copy
SymlinkElsewhere(f, a, s) ==
    IF f.agentDir[a] = "dir" /\ f.entry[a][s].kind = "absent"
    THEN [ok |-> TRUE, fs |-> SetEntry(f, a, s, SymlinkEntry(ForeignTarget))]
    ELSE [ok |-> FALSE, fs |-> f]

\* std::os::unix::fs::symlink(global_skill_path, agent_skill_path): fails
\* when the parent is no directory, when any entry is already at the path,
\* or when the directory is not writable.
Symlink(f, a, s) ==
    IF f.agentDir[a] = "dir" /\ f.entry[a][s].kind = "absent"
    THEN [ok |-> TRUE, fs |-> SetEntry(f, a, s, SymlinkEntry(GlobalSkillPath(s)))]
    ELSE [ok |-> FALSE, fs |-> f]

\* A removal that takes whatever is at the path, a directory too
RemoveFileOrDir(f, a, s) ==
    IF f.agentDir[a] = "dir" /\ f.entry[a][s].kind # "absent"
    THEN [ok |-> TRUE, fs |-> SetEntry(f, a, s, NoEntry)]
    ELSE [ok |-> FALSE, fs |-> f]

\* fs::remove_file on home/<agent path>/<skill_name>: unlinks a symlink or
\* a regular file; fails on a directory, on a missing path and in a
\* directory that is not writable.
RemoveFile(f, a, s) ==
    IF f.agentDir[a] = "dir" /\ f.entry[a][s].kind \in { "symlink", "file" }
    THEN [ok |-> TRUE, fs |-> SetEntry(f, a, s, NoEntry)]
    ELSE [ok |-> FALSE, fs |-> f]

----------------------------------------------------------------------------
(* Results of commands *)

FailedOperation(id, error) == [agent_id |-> id, error |-> error]

\* Ok(BatchResult { success, failed })
BatchOk(f, success, failed) ==
    [fs |-> f, ok |-> TRUE, error |-> "", success |-> success, failed |-> failed]

\* Ok(()) of a single-target command
UnitOk(f) == [fs |-> f, ok |-> TRUE, error |-> "", success |-> << >>, failed |-> << >>]

\* Err(message): the filesystem is as the command left it.
Failure(f, error) ==
    [fs |-> f, ok |-> FALSE, error |-> error, success |-> << >>, failed |-> << >>]

----------------------------------------------------------------------------
(* detect_agents_with_home: every catalog entry, in catalog order, with    *)
(* detected = whether home/<path> exists.                                  *)

detect_agents_with_home(f) ==
    [ i \in 1..Len(Catalog) |->
        [ id |-> Catalog[i].id, name |-> Catalog[i].name, path |-> Catalog[i].path,
          detected |-> Detected(f, Catalog[i].id) ] ]

----------------------------------------------------------------------------
(* link_skill_to_all_with_home                                             *)

\* LinkDetectedAgent without the tolerance for a link that is already
\* there: every agent goes through symlink(), as in toggle_skill.
LinkDetectedAgentStrict(acc, agent, s) ==
    LET probe == SymlinkMetadata(acc.fs, agent.id, s) IN
    IF probe \in { "file", "dir" }
    THEN [acc EXCEPT !.failed = Append(@, FailedOperation(agent.id,
              "A file or directory already exists at the target path"))]
    ELSE LET made == CreateDirAll(acc.fs, agent.id) IN
         IF ~made.ok
         THEN [acc EXCEPT !.fs = made.fs,
                          !.failed = Append(@, FailedOperation(agent.id,
                              "Failed to create parent directory"))]
         ELSE LET linked == Symlink(made.fs, agent.id, s) IN
              IF linked.ok
              THEN [acc EXCEPT !.fs = linked.fs, !.success = Append(@, agent.id)]
              ELSE [acc EXCEPT !.fs = linked.fs,
                               !.failed = Append(@, FailedOperation(agent.id,
                                   "Failed to create symlink"))]

\* LinkDetectedAgent pointing a link that is already there at the repository
\* copy again instead of leaving it alone
LinkDetectedAgentRelink(acc, agent, s) ==
    LET probe == SymlinkMetadata(acc.fs, agent.id, s) IN
    IF probe = "symlink"
    THEN [acc EXCEPT !.fs = SetEntry(@, agent.id, s, SymlinkEntry(GlobalSkillPath(s))),
                     !.success = Append(@, agent.id)]
    ELSE LinkDetectedAgentStrict(acc, agent, s)

\* LinkDetectedAgent without the `continue` after a blocking entry was
\* recorded: the link is attempted all the same.
LinkDetectedAgentNoContinue(acc, agent, s) ==
    LET probe == SymlinkMetadata(acc.fs, agent.id, s)
        noted == IF probe \in { "file", "dir" }
                 THEN [acc EXCEPT !.failed = Append(@, FailedOperation(agent.id,
                          "A file or directory already exists at the target path"))]
                 ELSE acc
    IN
    IF probe = "symlink"
    THEN [acc EXCEPT !.success = Append(@, agent.id)]
    ELSE LET made == CreateDirAll(noted.fs, agent.id) IN
         IF ~made.ok
         THEN [noted EXCEPT !.fs = made.fs,
                            !.failed = Append(@, FailedOperation(agent.id,
                                "Failed to create parent directory"))]
         ELSE LET linked == Symlink(made.fs, agent.id, s) IN
              IF linked.ok
              THEN [noted EXCEPT !.fs = linked.fs, !.success = Append(@, agent.id)]
              ELSE [noted EXCEPT !.fs = linked.fs,
                                 !.failed = Append(@, FailedOperation(agent.id,
                                     "Failed to create symlink"))]

\* The body of the loop for a detected agent (lib.rs 312-352).  acc is
\* [fs, success, failed]: the filesystem and the two lists so far.
LinkDetectedAgent(acc, agent, s) ==
    LET probe == SymlinkMetadata(acc.fs, agent.id, s) IN
    IF probe = "symlink"
    THEN [acc EXCEPT !.success = Append(@, agent.id)]          \* already linked
    ELSE IF probe # "absent"
    THEN [acc EXCEPT !.failed = Append(@, FailedOperation(agent.id,
              "A file or directory already exists at the target path"))]
    ELSE LET made == CreateDirAll(acc.fs, agent.id) IN
         IF ~made.ok
         THEN [acc EXCEPT !.fs = made.fs,
                          !.failed = Append(@, FailedOperation(agent.id,
                              "Failed to create parent directory"))]
         ELSE LET linked == Symlink(made.fs, agent.id, s) IN
              IF linked.ok
              THEN [acc EXCEPT !.fs = linked.fs, !.success = Append(@, agent.id)]
              ELSE [acc EXCEPT !.fs = linked.fs,
                               !.failed = Append(@, FailedOperation(agent.id,
                                   "Failed to create symlink"))]

\* LinkAgent without the skip of agents that are not detected
LinkAgentNoSkip(acc, agent, s) == LinkDetectedAgent(acc, agent, s)

\* One iteration of the loop over the agents (lib.rs 306-353): agents that
\* are not detected are skipped.
LinkAgent(acc, agent, s) ==
    IF ~agent.detected THEN acc ELSE LinkDetectedAgent(acc, agent, s)

\* LinkLoop leaving the loop at the first agent that failed
RECURSIVE LinkLoopAbort(_, _, _, _)
LinkLoopAbort(acc, agents, i, s) ==
    IF i > Len(agents) \/ acc.failed # << >> THEN acc
    ELSE LinkLoopAbort(LinkAgent(acc, agents[i], s), agents, i + 1, s)

RECURSIVE LinkLoop(_, _, _, _)
LinkLoop(acc, agents, i, s) ==
    IF i > Len(agents) THEN acc
    ELSE LinkLoop(LinkAgent(acc, agents[i], s), agents, i + 1, s)

\* link_skill_to_all_with_home without the check of the repository copy
link_skill_to_all_unchecked(f, s) ==
    LET agents == detect_agents_with_home(f)
        done == LinkLoop([fs |-> f, success |-> << >>, failed |-> << >>], agents, 1, s)
    IN  BatchOk(done.fs, done.success, done.failed)

link_skill_to_all_with_home(f, s) ==
    LET agents == detect_agents_with_home(f) IN
    IF ~GlobalSkillExists(f, s)
    THEN Failure(f, "Global skill does not exist")
    ELSE LET done == LinkLoop([fs |-> f, success |-> << >>, failed |-> << >>], agents, 1, s)
         IN  BatchOk(done.fs, done.success, done.failed)

----------------------------------------------------------------------------
(* unlink_skill_from_all_with_home                                         *)

\* UnlinkAgent counting an agent without anything at its target path as
\* unlinked
UnlinkAgentCountsAbsent(acc, def, s) ==
    LET probe == SymlinkMetadata(acc.fs, def.id, s) IN
    IF probe = "symlink"
    THEN LET removed == RemoveFile(acc.fs, def.id, s) IN
         IF removed.ok
         THEN [acc EXCEPT !.fs = removed.fs, !.success = Append(@, def.id)]
         ELSE [acc EXCEPT !.fs = removed.fs,
                          !.failed = Append(@, FailedOperation(def.id,
                              "Failed to remove symlink"))]
    ELSE IF probe = "absent"
    THEN [acc EXCEPT !.success = Append(@, def.id)]
    ELSE acc

\* UnlinkAgent removing only the links that point at the repository copy
UnlinkAgentOwnLinksOnly(acc, def, s) ==
    IF acc.fs.entry[def.id][s] = SymlinkEntry(GlobalSkillPath(s))
    THEN LET removed == RemoveFile(acc.fs, def.id, s) IN
         IF removed.ok
         THEN [acc EXCEPT !.fs = removed.fs, !.success = Append(@, def.id)]
         ELSE [acc EXCEPT !.fs = removed.fs,
                          !.failed = Append(@, FailedOperation(def.id,
                              "Failed to remove symlink"))]
    ELSE acc

\* UnlinkAgent removing whatever remove_file can remove, symlink or not
UnlinkAgentAnyFile(acc, def, s) ==
    IF SymlinkMetadata(acc.fs, def.id, s) \in { "symlink", "file" }
    THEN LET removed == RemoveFile(acc.fs, def.id, s) IN
         IF removed.ok
         THEN [acc EXCEPT !.fs = removed.fs, !.success = Append(@, def.id)]
         ELSE [acc EXCEPT !.fs = removed.fs,
                          !.failed = Append(@, FailedOperation(def.id,
                              "Failed to remove symlink"))]
    ELSE acc

\* One iteration of the loop over the agent definitions (lib.rs 377-404).
UnlinkAgent(acc, def, s) ==
    IF SymlinkMetadata(acc.fs, def.id, s) = "symlink"
    THEN LET removed == RemoveFile(acc.fs, def.id, s) IN
         IF removed.ok
         THEN [acc EXCEPT !.fs = removed.fs, !.success = Append(@, def.id)]
         ELSE [acc EXCEPT !.fs = removed.fs,
                          !.failed = Append(@, FailedOperation(def.id,
                              "Failed to remove symlink"))]
    ELSE acc              \* absent, or present and not a symlink: not touched

\* UnlinkLoop going through the catalog from its last agent to its first
RECURSIVE UnlinkLoopBackwards(_, _, _, _)
UnlinkLoopBackwards(acc, defs, i, s) ==
    IF i > Len(defs) THEN acc
    ELSE UnlinkLoopBackwards(UnlinkAgent(acc, defs[Len(defs) + 1 - i], s), defs, i + 1, s)

RECURSIVE UnlinkLoop(_, _, _, _)
UnlinkLoop(acc, defs, i, s) ==
    IF i > Len(defs) THEN acc
    ELSE UnlinkLoop(UnlinkAgent(acc, defs[i], s), defs, i + 1, s)

unlink_skill_from_all_with_home(f, s) ==
    LET done == UnlinkLoop([fs |-> f, success |-> << >>, failed |-> << >>], Catalog, 1, s)
    IN  BatchOk(done.fs, done.success, done.failed)

----------------------------------------------------------------------------
(* toggle_skill                                                            *)

\* toggle_skill removing a directory at the target path as well when disabling
toggle_skill_remove_any(f, agent_id, s, enable) ==
    IF agent_id \notin AgentIds
    THEN Failure(f, "Agent not found")
    ELSE IF enable
    THEN IF ~GlobalSkillExists(f, s)
         THEN Failure(f, "Global skill does not exist")
         ELSE LET made == CreateDirAll(f, agent_id)
                  linked == Symlink(made.fs, agent_id, s)
              IN  IF linked.ok THEN UnitOk(linked.fs)
                  ELSE Failure(linked.fs, "Failed to link")
    ELSE IF SymlinkMetadata(f, agent_id, s) # "absent"
         THEN IF f.agentDir[agent_id] = "dir"
              THEN UnitOk(SetEntry(f, agent_id, s, NoEntry))
              ELSE Failure(f, "Failed to unlink")
         ELSE UnitOk(f)

\* toggle_skill replacing whatever link is in the way when enabling
toggle_skill_replace(f, agent_id, s, enable) ==
    IF agent_id \notin AgentIds
    THEN Failure(f, "Agent not found")
    ELSE IF enable
    THEN IF ~GlobalSkillExists(f, s)
         THEN Failure(f, "Global skill does not exist")
         ELSE LET made == CreateDirAll(f, agent_id)
                  cleared == RemoveFile(made.fs, agent_id, s)
                  linked == Symlink(cleared.fs, agent_id, s)
              IN  IF linked.ok THEN UnitOk(linked.fs)
                  ELSE Failure(linked.fs, "Failed to link")
    ELSE IF SymlinkMetadata(f, agent_id, s) # "absent"
         THEN LET removed == RemoveFile(f, agent_id, s) IN
              IF removed.ok THEN UnitOk(removed.fs)
              ELSE Failure(removed.fs, "Failed to unlink")
         ELSE UnitOk(f)

\* toggle_skill flipping the link whatever `enable` says
toggle_skill_flip(f, agent_id, s, enable) ==
    IF agent_id \notin AgentIds
    THEN Failure(f, "Agent not found")
    ELSE IF SymlinkMetadata(f, agent_id, s) = "absent"
    THEN IF ~GlobalSkillExists(f, s)
         THEN Failure(f, "Global skill does not exist")
         ELSE LET made == CreateDirAll(f, agent_id)
                  linked == Symlink(made.fs, agent_id, s)
              IN  IF linked.ok THEN UnitOk(linked.fs)
                  ELSE Failure(linked.fs, "Failed to link")
    ELSE LET removed == RemoveFile(f, agent_id, s) IN
         IF removed.ok THEN UnitOk(removed.fs)
         ELSE Failure(removed.fs, "Failed to unlink")

\* toggle_skill creating the agent's directory before it looks for the
\* repository copy
toggle_skill_dir_first(f, agent_id, s, enable) ==
    IF agent_id \notin AgentIds
    THEN Failure(f, "Agent not found")
    ELSE IF enable
    THEN LET made == CreateDirAll(f, agent_id) IN
         IF ~GlobalSkillExists(f, s)
         THEN Failure(made.fs, "Global skill does not exist")
         ELSE LET linked == Symlink(made.fs, agent_id, s)
              IN  IF linked.ok THEN UnitOk(linked.fs)
                  ELSE Failure(linked.fs, "Failed to link")
    ELSE IF SymlinkMetadata(f, agent_id, s) # "absent"
         THEN LET removed == RemoveFile(f, agent_id, s) IN
              IF removed.ok THEN UnitOk(removed.fs)
              ELSE Failure(removed.fs, "Failed to unlink")
         ELSE UnitOk(f)

toggle_skill(f, agent_id, s, enable) ==
    IF agent_id \notin AgentIds
    THEN Failure(f, "Agent not found")
    ELSE IF enable
    THEN IF ~GlobalSkillExists(f, s)
         THEN Failure(f, "Global skill does not exist")
         ELSE \* the result of create_dir_all is discarded (let _ = ...)
              LET made == CreateDirAll(f, agent_id)
                  linked == Symlink(made.fs, agent_id, s)
              IN  IF linked.ok THEN UnitOk(linked.fs)
                  ELSE Failure(linked.fs, "Failed to link")
    ELSE IF SymlinkMetadata(f, agent_id, s) # "absent"
         THEN LET removed == RemoveFile(f, agent_id, s) IN
              IF removed.ok THEN UnitOk(removed.fs)
              ELSE Failure(removed.fs, "Failed to unlink")
         ELSE UnitOk(f)

----------------------------------------------------------------------------
(* delete_local_skill                                                      *)

\* fs::remove_dir_all on home/<agent path>/<skill_name>, a directory (what
\* the directory holds is not part of the state).
RemoveDirAll(f, a, s) ==
    IF f.agentDir[a] = "dir" /\ f.entry[a][s].kind = "dir"
    THEN [ok |-> TRUE, fs |-> SetEntry(f, a, s, NoEntry)]
    ELSE [ok |-> FALSE, fs |-> f]

\* delete_local_skill without the refusal of symlinks
delete_local_skill_any(f, agent_id, s) ==
    IF agent_id \notin AgentIds
    THEN Failure(f, "Agent not found")
    ELSE LET probe == SymlinkMetadata(f, agent_id, s) IN
         CASE probe = "absent"  -> Failure(f, "Skill directory not found")
           [] probe = "file"    -> Failure(f, "Path is not a directory")
           [] OTHER             -> IF f.agentDir[agent_id] = "dir"
                                   THEN UnitOk(SetEntry(f, agent_id, s, NoEntry))
                                   ELSE Failure(f, "Failed to delete directory")

delete_local_skill(f, agent_id, s) ==
    IF agent_id \notin AgentIds
    THEN Failure(f, "Agent not found")
    ELSE LET probe == SymlinkMetadata(f, agent_id, s) IN
         CASE probe = "absent"  -> Failure(f, "Skill directory not found")
           [] probe = "symlink" -> Failure(f, "Cannot delete: this is a symlink, use unlink instead")
           [] probe = "dir"     -> LET removed == RemoveDirAll(f, agent_id, s) IN
                                   IF removed.ok THEN UnitOk(removed.fs)
                                   ELSE Failure(removed.fs, "Failed to delete directory")
           [] OTHER             -> Failure(f, "Path is not a directory")

----------------------------------------------------------------------------
(* upload_to_global                                                        *)

\* fs::create_dir_all on home/.agents/skills, run when it does not exist
CreateGlobalRoot(f) == [ok |-> TRUE, fs |-> [f EXCEPT !.globalRoot = TRUE]]

\* copy_dir_recursive(local_skill_path, global_skill_path): the repository
\* gains a directory of that name; the local directory is only read.
copy_dir_recursive(f, a, s) ==
    IF f.globalRoot /\ f.global[s] = "absent"
    THEN [ok |-> TRUE, fs |-> [f EXCEPT !.global[s] = "dir"]]
    ELSE [ok |-> FALSE, fs |-> f]

\* upload_to_global creating the repository root before its checks
upload_to_global_root_first(f, agent_id, s) ==
    IF agent_id \notin AgentIds
    THEN Failure(f, "Agent not found")
    ELSE LET rooted == CreateGlobalRoot(f)
             probe == SymlinkMetadata(f, agent_id, s)
         IN
         CASE probe = "absent"  -> Failure(rooted.fs, "Local skill directory not found")
           [] probe = "symlink" -> Failure(rooted.fs, "Cannot upload: this is already a symlink")
           [] probe # "dir"     -> Failure(rooted.fs, "Path is not a directory")
           [] OTHER ->
                IF GlobalSkillExists(f, s)
                THEN Failure(rooted.fs, "Skill already exists in global skills")
                ELSE LET copied == copy_dir_recursive(rooted.fs, agent_id, s)
                     IN  IF copied.ok THEN UnitOk(copied.fs)
                         ELSE Failure(copied.fs, "Failed to copy")

upload_to_global(f, agent_id, s) ==
    IF agent_id \notin AgentIds
    THEN Failure(f, "Agent not found")
    ELSE LET probe == SymlinkMetadata(f, agent_id, s) IN
         CASE probe = "absent"  -> Failure(f, "Local skill directory not found")
           [] probe = "symlink" -> Failure(f, "Cannot upload: this is already a symlink")
           [] probe # "dir"     -> Failure(f, "Path is not a directory")
           [] OTHER ->
                IF GlobalSkillExists(f, s)
                THEN Failure(f, "Skill already exists in global skills")
                ELSE LET rooted == IF f.globalRoot THEN [ok |-> TRUE, fs |-> f]
                                   ELSE CreateGlobalRoot(f)
                         copied == copy_dir_recursive(rooted.fs, agent_id, s)
                     IN  IF ~rooted.ok
                         THEN Failure(rooted.fs, "Failed to create global skills directory")
                         ELSE IF copied.ok THEN UnitOk(copied.fs)
                         ELSE Failure(copied.fs, "Failed to copy")

----------------------------------------------------------------------------
(* The state machine: the host application invokes the commands one at a   *)
(* time; res is the last call with its result, before the filesystem it    *)
(* ran on, prev the call before it when that was the same call with the    *)
(* same arguments (NoCall otherwise).                                      *)

Call(op, agent_id, s, enable) ==
    [op |-> op, agent_id |-> agent_id, skill_name |-> s, enable |-> enable]

NoCall ==
    [call |-> Call("none", "", "", FALSE), ok |-> TRUE, error |-> "",
     success |-> << >>, failed |-> << >>]

Init ==
    /\ fs \in FsStates
    /\ before = fs
    /\ res = NoCall
    /\ prev = NoCall
    /\ DetectUnused /\ ViewUnused /\ ParserUnused /\ RaceUnused /\ PathUnused

\* The command `call` ran on fs and returned r.
Returns(call, r) ==
    /\ fs' = r.fs
    /\ before' = fs
    /\ res' = [call |-> call, ok |-> r.ok, error |-> r.error,
               success |-> r.success, failed |-> r.failed]
    /\ prev' = IF res.call = call THEN res ELSE NoCall
    /\ UNCHANGED <<detectVars, viewVars, parserVars, raceVars, pathVars>>

AgentInputs == AgentIds \cup { UnknownAgent }

ToggleSkill ==
    \E a \in AgentInputs, s \in Skills, enable \in BOOLEAN :
        Returns(Call("toggle_skill", a, s, enable), toggle_skill(fs, a, s, enable))

LinkSkillToAll ==
    \E s \in Skills :
        Returns(Call("link_skill_to_all", "", s, FALSE), link_skill_to_all_with_home(fs, s))

UnlinkSkillFromAll ==
    \E s \in Skills :
        Returns(Call("unlink_skill_from_all", "", s, FALSE), unlink_skill_from_all_with_home(fs, s))

DeleteLocalSkill ==
    \E a \in AgentInputs, s \in Skills :
        Returns(Call("delete_local_skill", a, s, FALSE), delete_local_skill(fs, a, s))

UploadToGlobal ==
    \E a \in AgentInputs, s \in Skills :
        Returns(Call("upload_to_global", a, s, FALSE), upload_to_global(fs, a, s))

Next ==
    \/ ToggleSkill
    \/ LinkSkillToAll
    \/ UnlinkSkillFromAll
    \/ DeleteLocalSkill
    \/ UploadToGlobal

Spec == Init /\ [][Next]_vars

----------------------------------------------------------------------------
(* Vocabulary of the claims *)

Range(seq) == { seq[i] : i \in 1..Len(seq) }

NoDuplicates(seq) == \A i, j \in 1..Len(seq) : i # j => seq[i] # seq[j]

\* The agent ids in BatchResult.success and in BatchResult.failed of the last call
SuccessIds == Range(res.success)
FailedIds == { res.failed[i].agent_id : i \in 1..Len(res.failed) }

\* home/<agent path>/<skill_name> is a symbolic link
HasSymlink(f, a, s) == f.entry[a][s].kind = "symlink"

\* The last call was linkToAll / unlinkFromAll and returned a BatchResult
LinkAllReturned == res.call.op = "link_skill_to_all" /\ res.ok
UnlinkAllReturned == res.call.op = "unlink_skill_from_all" /\ res.ok

\* The last call repeated the call before it (same command, same arguments)
CalledTwice(op) == res.call.op = op /\ prev.call = res.call

DetectedAgents(f) == { a \in AgentIds : Detected(f, a) }

\* A non-symlink entry (regular file or directory) is at the agent's target path
Blocked(f, a, s) == f.entry[a][s].kind \in { "file", "dir" }

----------------------------------------------------------------------------
(* C1: after linkToAll(skill) has returned a BatchResult, every agent that *)
(* was detected has a symlink at its target path or is in failed, never    *)
(* both; every agent that was not detected has no symlink at its target    *)
(* path and is in neither success nor failed.                              *)
C1_LinkAllCoverage ==
    LinkAllReturned =>
        \A a \in AgentIds :
            LET s == res.call.skill_name IN
            IF Detected(before, a)
            THEN HasSymlink(fs, a, s) # (a \in FailedIds)
            ELSE ~HasSymlink(fs, a, s) /\ a \notin SuccessIds /\ a \notin FailedIds

\* linkToAll created the link of one detected agent and passed over an agent
\* that was not detected
C1_Witness ==
    /\ LinkAllReturned
    /\ \E a, b \in AgentIds :
          /\ Detected(before, a)
          /\ ~HasSymlink(before, a, res.call.skill_name)
          /\ HasSymlink(fs, a, res.call.skill_name)
          /\ ~Detected(before, b)

----------------------------------------------------------------------------
(* C2 as stated: when exactly one detected agent has a non-symlink entry   *)
(* at its target path, linkToAll puts that agent in failed with a          *)
(* non-empty error and every other detected agent in success with a        *)
(* symlink at its target path, and success.length + failed.length is the   *)
(* number of detected agents.                                              *)
ExactlyOneBlocked(f, s, a) ==
    /\ Detected(f, a) /\ Blocked(f, a, s)
    /\ \A b \in DetectedAgents(f) \ {a} : ~Blocked(f, b, s)

C2_AsStated ==
    LinkAllReturned =>
        \A a \in AgentIds :
            LET s == res.call.skill_name IN
            ExactlyOneBlocked(before, s, a) =>
                /\ \E i \in 1..Len(res.failed) :
                      res.failed[i].agent_id = a /\ res.failed[i].error # ""
                /\ \A b \in DetectedAgents(before) \ {a} :
                      b \in SuccessIds /\ HasSymlink(fs, b, s)
                /\ Len(res.success) + Len(res.failed) = Cardinality(DetectedAgents(before))

\* The link of agent a can be had: it is there already, or the agent's
\* skills path is a writable directory with nothing at the target path.
Linkable(f, a, s) ==
    \/ SymlinkMetadata(f, a, s) = "symlink"
    \/ f.agentDir[a] = "dir" /\ f.entry[a][s].kind = "absent"

(* C2 as amended: when exactly one detected agent has a non-symlink entry  *)
(* at its target path, linkToAll puts that agent in failed with a          *)
(* non-empty error, wherever it stands in the catalog, and every other     *)
(* detected agent in success with a symlink at its target path, except an  *)
(* agent whose own link cannot be created (its skills path is not a        *)
(* writable directory): that one is in failed with a non-empty error too,  *)
(* without a symlink; success.length + failed.length is the number of      *)
(* detected agents.                                                        *)
C2_PartialFailureIsolation ==
    LinkAllReturned =>
        \A a \in AgentIds :
            LET s == res.call.skill_name IN
            ExactlyOneBlocked(before, s, a) =>
                /\ a \in FailedIds /\ a \notin SuccessIds
                /\ \A i \in 1..Len(res.failed) : res.failed[i].error # ""
                /\ fs.entry[a][s] = before.entry[a][s]
                /\ \A b \in DetectedAgents(before) \ {a} :
                      IF Linkable(before, b, s)
                      THEN b \in SuccessIds /\ b \notin FailedIds /\ HasSymlink(fs, b, s)
                      ELSE b \in FailedIds /\ b \notin SuccessIds /\ ~HasSymlink(fs, b, s)
                /\ Len(res.success) + Len(res.failed) = Cardinality(DetectedAgents(before))

\* the first catalog agent was blocked, and the link of a later one was created
C2_Witness ==
    /\ LinkAllReturned
    /\ ExactlyOneBlocked(before, res.call.skill_name, Catalog[1].id)
    /\ \E b \in DetectedAgents(before) \ {Catalog[1].id} :
          /\ ~HasSymlink(before, b, res.call.skill_name)
          /\ HasSymlink(fs, b, res.call.skill_name)
          /\ b \in SuccessIds

----------------------------------------------------------------------------
(* C3 as stated: after unlinkFromAll(skill) has returned, no catalog agent *)
(* (detected or not) has a symlink at its target path, and every agent     *)
(* that had one before the call is in success.                             *)
C3_AsStated ==
    UnlinkAllReturned =>
        \A a \in AgentIds :
            LET s == res.call.skill_name IN
            /\ ~HasSymlink(fs, a, s)
            /\ HasSymlink(before, a, s) => a \in SuccessIds

(* C3 as amended: after unlinkFromAll(skill) has returned, every catalog   *)
(* agent (detected or not) whose target path was a symlink is either in    *)
(* success, and the symlink is gone, or in failed because removing it      *)
(* failed, and the symlink is still there as it was; no agent outside      *)
(* failed retains a symlink at its target path.                            *)
C3_UnlinkAllScope ==
    UnlinkAllReturned =>
        \A a \in AgentIds :
            LET s == res.call.skill_name IN
            /\ HasSymlink(before, a, s) =>
                  \/ a \in SuccessIds /\ a \notin FailedIds /\ fs.entry[a][s] = NoEntry
                  \/ a \in FailedIds /\ a \notin SuccessIds
                       /\ fs.entry[a][s] = before.entry[a][s]
            /\ HasSymlink(fs, a, s) => a \in FailedIds

\* unlinkFromAll removed a symlink that did not point at the repository copy
C3_Witness ==
    /\ UnlinkAllReturned
    /\ \E a \in AgentIds :
          /\ before.entry[a][res.call.skill_name] = SymlinkEntry(ForeignTarget)
          /\ fs.entry[a][res.call.skill_name] = NoEntry
          /\ a \in SuccessIds

----------------------------------------------------------------------------
(* C4: unlinkFromAll leaves every target-path entry that is not a symlink  *)
(* (regular file or directory) exactly as it was, and such an agent is in  *)
(* neither success nor failed; an agent whose target path is absent is in  *)
(* neither list either.                                                    *)
C4_UnlinkAllLeavesForeignEntries ==
    UnlinkAllReturned =>
        \A a \in AgentIds :
            LET s == res.call.skill_name IN
            ~HasSymlink(before, a, s) =>
                /\ fs.entry[a][s] = before.entry[a][s]
                /\ fs.agentDir[a] = before.agentDir[a]
                /\ a \notin SuccessIds
                /\ a \notin FailedIds

\* unlinkFromAll removed one agent's symlink and met a regular file at another's
C4_Witness ==
    /\ UnlinkAllReturned
    /\ res.success # << >>
    /\ \E a \in AgentIds :
          /\ before.agentDir[a] = "dir"
          /\ before.entry[a][res.call.skill_name] = FileEntry
          /\ fs.entry[a][res.call.skill_name] = FileEntry

----------------------------------------------------------------------------
(* C5: in every BatchResult of linkToAll and unlinkFromAll no agent id is  *)
(* both in success and in failed, none occurs twice in either list, and    *)
(* the ids of the two lists together are exactly the agents considered:    *)
(* the detected agents for linkToAll, the catalog agents whose target path *)
(* was a symlink when probed for unlinkFromAll.                            *)
FailedIdSeq == [ i \in 1..Len(res.failed) |-> res.failed[i].agent_id ]

Considered ==
    IF res.call.op = "link_skill_to_all"
    THEN DetectedAgents(before)
    ELSE { a \in AgentIds : SymlinkMetadata(before, a, res.call.skill_name) = "symlink" }

C5_BatchResultPartition ==
    (LinkAllReturned \/ UnlinkAllReturned) =>
        /\ SuccessIds \cap FailedIds = {}
        /\ NoDuplicates(res.success)
        /\ NoDuplicates(FailedIdSeq)
        /\ SuccessIds \cup FailedIds = Considered

\* a linkToAll whose result has entries in both lists
C5_Witness ==
    /\ LinkAllReturned
    /\ res.success # << >>
    /\ res.failed # << >>

----------------------------------------------------------------------------
(* C6 as stated: when linkToAll(skill) is called twice in succession with  *)
(* no change in between, the success set is the same both times and the    *)
(* second call reports no failures.                                        *)
C6_AsStated ==
    (CalledTwice("link_skill_to_all") /\ prev.ok) =>
        /\ res.ok
        /\ SuccessIds = Range(prev.success)
        /\ res.failed = << >>

(* C6 as amended: when linkToAll(skill) is called twice in succession with *)
(* no change in between, the success set is the same both times and the    *)
(* second call reports the failures of the first over again: none exactly  *)
(* when the first call reported none.                                      *)
C6_LinkAllTwice ==
    (CalledTwice("link_skill_to_all") /\ prev.ok) =>
        /\ res.ok
        /\ SuccessIds = Range(prev.success)
        /\ res.failed = prev.failed
        /\ fs = before

\* the second of two linkToAll calls found the links the first one had left
\* and failed again on the agent the first one had failed on
C6_Witness ==
    /\ CalledTwice("link_skill_to_all")
    /\ prev.ok /\ res.ok
    /\ res.success # << >>
    /\ res.failed # << >>
    /\ \E a \in SuccessIds :
          before.entry[a][res.call.skill_name] = SymlinkEntry(GlobalSkillPath(res.call.skill_name))

----------------------------------------------------------------------------
(* C7 as stated: a second unlinkFromAll(skill) made directly after a first *)
(* one returns empty success and empty failed and leaves no symlink at any *)
(* catalog agent's target path.                                            *)
C7_AsStated ==
    CalledTwice("unlink_skill_from_all") =>
        /\ res.ok
        /\ res.success = << >>
        /\ res.failed = << >>
        /\ \A a \in AgentIds : ~HasSymlink(fs, a, res.call.skill_name)

(* C7 as amended: a second unlinkFromAll(skill) made directly after a      *)
(* first one returns empty success and the same failed list as the first   *)
(* (empty when the first call removed every symlink it found), changes     *)
(* nothing, and leaves a symlink only at the target paths of the agents in *)
(* failed.                                                                 *)
C7_UnlinkAllTwice ==
    CalledTwice("unlink_skill_from_all") =>
        /\ res.ok
        /\ res.success = << >>
        /\ res.failed = prev.failed
        /\ fs = before
        /\ \A a \in AgentIds : HasSymlink(fs, a, res.call.skill_name) <=> a \in FailedIds

\* the second of two unlinkFromAll calls, the first of which had removed a symlink
C7_Witness ==
    /\ CalledTwice("unlink_skill_from_all")
    /\ prev.success # << >>
    /\ res.success = << >>

----------------------------------------------------------------------------
(* C8: linkToAll(skill) fails as a whole with GlobalSkillMissing when the  *)
(* repository copy of the skill does not exist: no BatchResult is          *)
(* returned, and no symlink or directory is created for any agent (the     *)
(* filesystem is as it was).                                               *)
C8_LinkAllGlobalSkillMissing ==
    res.call.op = "link_skill_to_all" =>
        /\ res.ok <=> GlobalSkillExists(before, res.call.skill_name)
        /\ ~res.ok =>
              /\ res.error = "Global skill does not exist"
              /\ res.success = << >> /\ res.failed = << >>
              /\ fs = before

\* linkToAll was refused although a detected agent had a free, writable target path
C8_Witness ==
    /\ res.call.op = "link_skill_to_all"
    /\ ~res.ok
    /\ \E a \in AgentIds :
          before.agentDir[a] = "dir" /\ before.entry[a][res.call.skill_name] = NoEntry

----------------------------------------------------------------------------
(* C9: toggleSingle, linkToAll, unlinkFromAll and promoteLocalToGlobal are *)
(* idempotent with respect to the filesystem: the second of two successive *)
(* calls with the same arguments leaves the filesystem as the first call   *)
(* left it, whatever the second call returns.                              *)
IdempotentOps ==
    { "toggle_skill", "link_skill_to_all", "unlink_skill_from_all", "upload_to_global" }

C9_IdempotentFinalState ==
    (res.call.op \in IdempotentOps /\ prev.call = res.call) => fs = before

\* the second of two toggleSingle(enable) calls, the first of which made the link
C9_Witness ==
    /\ CalledTwice("toggle_skill")
    /\ res.call.enable
    /\ prev.ok
    /\ ~res.ok
    /\ HasSymlink(fs, res.call.agent_id, res.call.skill_name)

----------------------------------------------------------------------------
(* C10 as stated: with a symlink, file or directory at the agent's target  *)
(* path, toggleSingle(agentId, skill, enable = true) fails with            *)
(* LinkFailure and leaves the entry as it is, even when the entry is a     *)
(* symlink to the repository copy; linkToAll counts an existing symlink as *)
(* success.                                                                *)
ToggleEnableReturned ==
    res.call.op = "toggle_skill" /\ res.call.enable /\ res.call.agent_id \in AgentIds

LinkAllKeepsExistingLinks ==
    LinkAllReturned =>
        \A a \in AgentIds :
            HasSymlink(before, a, res.call.skill_name) =>
                a \in SuccessIds /\ fs.entry[a] = before.entry[a]

C10_AsStated ==
    /\ ToggleEnableReturned =>
          (before.entry[res.call.agent_id][res.call.skill_name] # NoEntry =>
              /\ ~res.ok
              /\ res.error = "Failed to link"
              /\ fs = before)
    /\ LinkAllKeepsExistingLinks

(* C10 as amended: with a symlink, file or directory at the agent's target *)
(* path, toggleSingle(agentId, skill, enable = true) fails and leaves the  *)
(* entry as it is, even when the entry is a symlink to the repository      *)
(* copy: with LinkFailure when the repository copy exists, and with        *)
(* GlobalSkillMissing, which is checked first, when it does not; linkToAll *)
(* counts an existing symlink as success.                                  *)
C10_ToggleEnableRejectsExistingEntry ==
    /\ ToggleEnableReturned =>
          (before.entry[res.call.agent_id][res.call.skill_name] # NoEntry =>
              /\ ~res.ok
              /\ res.error = IF GlobalSkillExists(before, res.call.skill_name)
                             THEN "Failed to link"
                             ELSE "Global skill does not exist"
              /\ fs = before)
    /\ LinkAllKeepsExistingLinks

\* toggleSingle(enable) failed on a symlink that already pointed at the repository copy
C10_Witness ==
    /\ ToggleEnableReturned
    /\ before.entry[res.call.agent_id][res.call.skill_name]
          = SymlinkEntry(GlobalSkillPath(res.call.skill_name))
    /\ res.error = "Failed to link"

----------------------------------------------------------------------------
(* C11 as stated: toggleSingle(agentId, skill, enable = false) removes the *)
(* entry at the agent's target path if it exists at all, be it a symlink,  *)
(* a regular file or a directory, so that no entry remains there after the *)
(* call; with the path already absent the call succeeds as a no-op.        *)
ToggleDisableReturned ==
    res.call.op = "toggle_skill" /\ ~res.call.enable /\ res.call.agent_id \in AgentIds

C11_AsStated ==
    ToggleDisableReturned =>
        /\ res.ok
        /\ fs.entry[res.call.agent_id][res.call.skill_name] = NoEntry
        /\ before.entry[res.call.agent_id][res.call.skill_name] = NoEntry => fs = before

(* C11 as amended: toggleSingle(agentId, skill, enable = false) removes    *)
(* the entry at the agent's target path when it is a symlink or a regular  *)
(* file, so that no entry remains there; a directory is not removed (the   *)
(* removal is a file removal): the call fails with an unlink failure and   *)
(* the directory stays, as does any entry whose removal fails for lack of  *)
(* write permission; with the path already absent the call succeeds as a   *)
(* no-op.                                                                  *)
C11_ToggleDisable ==
    ToggleDisableReturned =>
        LET a == res.call.agent_id
            s == res.call.skill_name
            was == before.entry[a][s]
        IN  /\ was = NoEntry => res.ok /\ fs = before
            /\ (was.kind \in { "symlink", "file" } /\ before.agentDir[a] = "dir") =>
                  res.ok /\ fs = SetEntry(before, a, s, NoEntry)
            /\ (was.kind = "dir" \/ (was # NoEntry /\ before.agentDir[a] = "rodir")) =>
                  ~res.ok /\ res.error = "Failed to unlink" /\ fs = before

\* toggleSingle(disable) met a local directory at the target path and left it
C11_Witness ==
    /\ ToggleDisableReturned
    /\ before.agentDir[res.call.agent_id] = "dir"
    /\ before.entry[res.call.agent_id][res.call.skill_name] = DirEntry
    /\ fs.entry[res.call.agent_id][res.call.skill_name] = DirEntry
    /\ ~res.ok

----------------------------------------------------------------------------
(* C12: promoteLocalToGlobal fails with IsSymlink when the agent's local   *)
(* entry is a symlink, NotFound when it is missing, NotADirectory when it  *)
(* is not a directory, and AlreadyExists when the repository already has   *)
(* an entry of that name (the checks are made in this order); in each of   *)
(* these cases neither the agent directory nor the repository is changed:  *)
(* no partial copy, no repository root created.                            *)
UploadReturned == res.call.op = "upload_to_global" /\ res.call.agent_id \in AgentIds

----------------------------------------------------------------------------
(* C13: deleteLocalSkill(agentId, skill) removes the entry only when it is *)
(* a non-symlink directory; when the target is a symlink it fails and the  *)
(* symlink (and the repository copy it points to) is left in place; when   *)
(* the target is missing or a regular file it fails and nothing is         *)
(* removed.                                                                *)
DeleteReturned == res.call.op = "delete_local_skill" /\ res.call.agent_id \in AgentIds

C13_DeleteLocalSkill ==
    DeleteReturned =>
        LET a == res.call.agent_id
            s == res.call.skill_name
            was == before.entry[a][s]
        IN  /\ res.ok => was = DirEntry /\ fs = SetEntry(before, a, s, NoEntry)
            /\ ~res.ok => fs = before
            /\ was.kind = "symlink" =>
                  /\ ~res.ok
                  /\ res.error = "Cannot delete: this is a symlink, use unlink instead"
            /\ was.kind = "absent" => ~res.ok /\ res.error = "Skill directory not found"
            /\ was.kind = "file" => ~res.ok /\ res.error = "Path is not a directory"
            /\ (was.kind = "dir" /\ before.agentDir[a] = "dir") => res.ok

\* deleteLocalSkill was refused on a symlink to an existing repository copy
C13_Witness ==
    /\ DeleteReturned
    /\ ~res.ok
    /\ before.entry[res.call.agent_id][res.call.skill_name]
          = SymlinkEntry(GlobalSkillPath(res.call.skill_name))
    /\ before.global[res.call.skill_name] = "dir"
    /\ fs = before

----------------------------------------------------------------------------
(* Agent detection on directory paths (DetectSpec)                         *)
(*                                                                         *)
(* The home root is the set of directories below it, each a sequence of    *)
(* path components.  Starting from a fresh (empty) home, the directories   *)
(* of some agents are created with create_dir_all, which creates the       *)
(* missing parents as well, and detect_agents_with_home reports for each   *)
(* of the 27 catalog entries whether home/<path> exists.                   *)

\* At most this many agent directories are created under the fresh home.
MaxCreated == 2

\* The relative paths of get_agent_definition_list, split at '/'.
AgentPathComponents ==
    <<
       << ".config", "agents", "skills" >>,
       << ".gemini", "antigravity", "global_skills" >>,
       << ".claude", "skills" >>,
       << ".clawdbot", "skills" >>,
       << ".cline", "skills" >>,
       << ".codex", "skills" >>,
       << ".commandcode", "skills" >>,
       << ".continue", "skills" >>,
       << ".config", "crush", "skills" >>,
       << ".cursor", "skills" >>,
       << ".factory", "skills" >>,
       << ".gemini", "skills" >>,
       << ".copilot", "skills" >>,
       << ".config", "goose", "skills" >>,
       << ".kilocode", "skills" >>,
       << ".kiro", "skills" >>,
       << ".mcpjam", "skills" >>,
       << ".config", "opencode", "skills" >>,
       << ".openhands", "skills" >>,
       << ".pi", "agent", "skills" >>,
       << ".qoder", "skills" >>,
       << ".qwen", "skills" >>,
       << ".roo", "skills" >>,
       << ".trae", "skills" >>,
       << ".codeium", "windsurf", "skills" >>,
       << ".zencoder", "skills" >>,
       << ".neovate", "skills" >>
    >>

Prefixes(p) == { SubSeq(p, 1, k) : k \in 1..Len(p) }

\* fs::create_dir_all(home.join(path)): the directory and its missing parents
CreateDirAllPath(dirs, p) == dirs \cup Prefixes(p)

\* Path::exists seeing a directory wherever its first component is one
PathExistsTopLevel(dirs, p) == SubSeq(p, 1, 1) \in dirs

\* Path::exists(home.join(rel_path))
PathExists(dirs, p) == p \in dirs

\* detect_agents_with_home over the directories below home
detect_agents_with_home_paths(dirs) ==
    [ i \in 1..Len(AgentDefinitionList) |->
        [ id |-> AgentDefinitionList[i].id,
          name |-> AgentDefinitionList[i].name,
          path |-> AgentDefinitionList[i].path,
          detected |-> PathExists(dirs, AgentPathComponents[i]) ] ]

\* A fresh home root, nothing detected yet.
DetectInit ==
    /\ home = {}
    /\ created = {}
    /\ detection = << >>
    /\ LinkUnused /\ ViewUnused /\ ParserUnused /\ RaceUnused /\ PathUnused

\* The directory of one more catalog entry is created under home.
CreateAgentDir ==
    \E i \in 1..Len(AgentDefinitionList) :
        /\ i \notin created
        /\ Cardinality(created) < MaxCreated
        /\ home' = CreateDirAllPath(home, AgentPathComponents[i])
        /\ created' = created \cup { i }
        /\ detection' = << >>
        /\ UNCHANGED <<linkVars, viewVars, parserVars, raceVars, pathVars>>

DetectAgents ==
    /\ detection' = detect_agents_with_home_paths(home)
    /\ UNCHANGED <<home, created, linkVars, viewVars, parserVars, raceVars, pathVars>>

DetectNext ==
    \/ CreateAgentDir
    \/ DetectAgents

DetectSpec == DetectInit /\ [][DetectNext]_vars

(* C14: for every subset S of the agent catalog, creating exactly the      *)
(* directories of the agents in S under a fresh home yields detected =     *)
(* true for precisely the agents in S and false for all others, and the    *)
(* output lists all 27 catalog entries in catalog order.                   *)
C14_DetectionMatchesCreated ==
    detection # << >> =>
        /\ Len(detection) = 27
        /\ \A i \in 1..27 :
             /\ detection[i].id = AgentDefinitionList[i].id
             /\ detection[i].name = AgentDefinitionList[i].name
             /\ detection[i].path = AgentDefinitionList[i].path
             /\ detection[i].detected <=> i \in created

\* antigravity (.gemini/antigravity/global_skills) was created and detected
\* while gemini-cli (.gemini/skills), which shares its parent, was not
C14_Witness ==
    /\ detection # << >>
    /\ created = { 2 }
    /\ detection[2].id = "antigravity" /\ detection[2].detected
    /\ detection[12].id = "gemini-cli" /\ ~detection[12].detected

----------------------------------------------------------------------------
(* The inventory scan and the agent detail (ViewSpec)                      *)
(*                                                                         *)
(* Both views read the filesystem below home and change nothing.  The      *)
(* tree they read has several entry names, a hidden one among them:        *)
(*   tree.agentDir[a]   "absent" | "dir" | "file"                          *)
(*   tree.entry[a][n]   the entry <n> inside the agent's directory         *)
(*   tree.globalRoot    whether home/.agents/skills exists                 *)
(*   tree.global[n]     the entry <n> inside the repository                *)
(* An entry is [kind, target, doc]: kind "absent" | "file" | "dir" |       *)
(* "symlink", the link target of a symlink, and for a directory what       *)
(* parse_skill_md returns on its SKILL.md (doc.present = FALSE when the    *)
(* file is missing or cannot be read).                                     *)

\* At most this many directories, files and links are put below home.
MaxEntries == 3

\* Entry names, and their bytes (String comparison is bytewise).
ViewNames == { ".x", "B", "a" }

NameBytes == [ n \in ViewNames |->
                 CASE n = ".x" -> << 46, 120 >>
                   [] n = "B"  -> << 66 >>
                   [] n = "a"  -> << 97 >> ]

\* name.starts_with('.')
IsHidden(n) == NameBytes[n][1] = 46

NoDoc == [present |-> FALSE, name |-> "", description |-> "", allowed_tools |-> << >>]

\* A SKILL.md that parses to a name and nothing else.
TitledDoc == [present |-> TRUE, name |-> "Title", description |-> "", allowed_tools |-> << >>]

\* A SKILL.md whose frontmatter has a description and tools, but no name.
DescribedDoc == [present |-> TRUE, name |-> "", description |-> "Text",
                 allowed_tools |-> << "tool" >>]

\* A SKILL.md with a name and a description.
FullDoc == [present |-> TRUE, name |-> "Title", description |-> "Text", allowed_tools |-> << >>]

\* A SKILL.md that parses to nothing at all.
EmptyDoc == [present |-> TRUE, name |-> "", description |-> "", allowed_tools |-> << >>]

Docs == { NoDoc, TitledDoc, DescribedDoc, FullDoc, EmptyDoc }

\* The SKILL.md of a local skill directory below an agent: none, or a name only.
LocalDocs == { NoDoc, TitledDoc }

ViewAbsent == [kind |-> "absent", target |-> << >>, doc |-> NoDoc]
ViewFile == [kind |-> "file", target |-> << >>, doc |-> NoDoc]
ViewDir(doc) == [kind |-> "dir", target |-> << >>, doc |-> doc]
ViewSymlink(t) == [kind |-> "symlink", target |-> t, doc |-> NoDoc]

\* What may be put at home/<agent path>/<n> and at home/.agents/skills/<n>.
AgentEntryChoices(n) ==
    { ViewFile, ViewSymlink(GlobalSkillPath(n)), ViewSymlink(ForeignTarget) }
        \cup { ViewDir(d) : d \in LocalDocs }

GlobalEntryChoices == { ViewFile, ViewSymlink(ForeignTarget) } \cup { ViewDir(d) : d \in Docs }

EmptyTree ==
    [ agentDir |-> [a \in AgentIds |-> "absent"],
      entry |-> [a \in AgentIds |-> [n \in ViewNames |-> ViewAbsent]],
      globalRoot |-> FALSE,
      global |-> [n \in ViewNames |-> ViewAbsent] ]

EntryCount(t) ==
    Cardinality({ a \in AgentIds : t.agentDir[a] # "absent" })
      + Cardinality({ n \in ViewNames : t.global[n] # ViewAbsent })
      + Cardinality({ x \in AgentIds \X ViewNames : t.entry[x[1]][x[2]] # ViewAbsent })

\* load_skill_metadata falling back on both fields as soon as one is empty
load_skill_metadata_together(doc, dir_name) ==
    IF doc.present /\ doc.name # "" /\ doc.description # ""
    THEN [ name |-> doc.name, description |-> doc.description,
           allowed_tools |-> doc.allowed_tools ]
    ELSE [ name |-> dir_name, description |-> "No description available",
           allowed_tools |-> IF doc.present THEN doc.allowed_tools ELSE << >> ]

\* load_skill_metadata(skill_dir, dir_name), doc being the parse of
\* skill_dir/SKILL.md when that file exists and can be read
load_skill_metadata(doc, dir_name) ==
    IF doc.present
    THEN [ name |-> IF doc.name = "" THEN dir_name ELSE doc.name,
           description |-> IF doc.description = ""
                           THEN "No description available" ELSE doc.description,
           allowed_tools |-> doc.allowed_tools ]
    ELSE [ name |-> dir_name, description |-> "No description available",
           allowed_tools |-> << >> ]

\* The doc found through home/<agent path>/<n>/SKILL.md: the directory's own
\* doc, or for a symlink the doc of the directory it resolves to.
DocThrough(t, a, n) ==
    LET e == t.entry[a][n] IN
    CASE e.kind = "dir" -> e.doc
      [] e.kind = "symlink" /\ e.target = GlobalSkillPath(n) /\ t.global[n].kind = "dir"
            -> t.global[n].doc
      [] OTHER -> NoDoc

\* entry.file_type().is_dir() && !name.starts_with('.') on a repository entry
IsGlobalSkill(t, n) == t.globalRoot /\ t.global[n].kind = "dir" /\ ~IsHidden(n)

\* Every order in which read_dir or a HashSet can yield the names of S.
ListingOrders(S) == { o \in [1..Cardinality(S) -> S] :
                        \A i, j \in DOMAIN o : i # j => o[i] # o[j] }

\* The names read_dir finds in home/.agents/skills and in home/<agent path>.
GlobalListing(t) == { n \in ViewNames : t.globalRoot /\ t.global[n] # ViewAbsent }
AgentListing(t, a) ==
    IF a \in AgentIds THEN { n \in ViewNames : SymlinkMetadata(t, a, n) # "absent" } ELSE {}

\* global_skill_names
GlobalSkillNames(t) == { n \in ViewNames : IsGlobalSkill(t, n) }

----------------------------------------------------------------------------
(* get_app_data_with_home *)

\* ScanAgent counting whatever is at the target path as an installed skill
ScanAgentAnyEntry(t, acc, agent, n) ==
    IF ~agent.detected THEN acc
    ELSE LET probe == SymlinkMetadata(t, agent.id, n) IN
         CASE probe = "symlink" ->
                [linked_agents |-> Append(acc.linked_agents, agent.id),
                 symlinked_agents |-> Append(acc.symlinked_agents, agent.id)]
           [] probe # "absent" ->
                [acc EXCEPT !.linked_agents = Append(@, agent.id)]
           [] OTHER -> acc

\* The probe of one agent for the skill n, appending to the two lists.
ScanAgent(t, acc, agent, n) ==
    IF ~agent.detected THEN acc
    ELSE LET probe == SymlinkMetadata(t, agent.id, n) IN
         CASE probe = "symlink" ->
                [linked_agents |-> Append(acc.linked_agents, agent.id),
                 symlinked_agents |-> Append(acc.symlinked_agents, agent.id)]
           [] probe = "dir" ->
                [acc EXCEPT !.linked_agents = Append(@, agent.id)]
           [] OTHER -> acc

RECURSIVE ScanAgents(_, _, _, _)
ScanAgents(t, acc, agentList, n) ==
    IF agentList = << >> THEN acc
    ELSE ScanAgents(t, ScanAgent(t, acc, Head(agentList), n), Tail(agentList), n)

\* The loop over read_dir(home/.agents/skills), which yields the entries in
\* the sequence `order`.
RECURSIVE ScanSkills(_, _, _)
ScanSkills(t, agentList, order) ==
    IF order = << >> THEN << >>
    ELSE LET n == Head(order)
             rest == ScanSkills(t, agentList, Tail(order))
         IN  IF IsGlobalSkill(t, n)
             THEN LET lists == ScanAgents(t, [linked_agents |-> << >>,
                                              symlinked_agents |-> << >>], agentList, n)
                  IN  << [ name |-> n,
                           metadata |-> load_skill_metadata(t.global[n].doc, n),
                           linked_agents |-> lists.linked_agents,
                           symlinked_agents |-> lists.symlinked_agents ] >> \o rest
             ELSE rest

get_app_data_with_home(t, order) ==
    LET agentList == detect_agents_with_home(t)
    IN  [ agents |-> agentList, skills |-> ScanSkills(t, agentList, order) ]

----------------------------------------------------------------------------
(* get_agent_detail_with_home *)

\* a.name.cmp(&b.name) == Less, on the bytes of the names
RECURSIVE BytesLess(_, _)
BytesLess(x, y) ==
    IF y = << >> THEN FALSE
    ELSE IF x = << >> THEN TRUE
    ELSE IF Head(x) # Head(y) THEN Head(x) < Head(y)
    ELSE BytesLess(Tail(x), Tail(y))

NameLess(m, n) == BytesLess(NameBytes[m], NameBytes[n])

RECURSIVE InsertByName(_, _)
InsertByName(sorted, e) ==
    IF sorted = << >> THEN << e >>
    ELSE IF NameLess(e.name, Head(sorted).name) THEN << e >> \o sorted
    ELSE << Head(sorted) >> \o InsertByName(Tail(sorted), e)

\* skills.sort_by(|a, b| a.name.cmp(&b.name)) left out: the list as collected
SortByNameSkipped(skills) == skills

\* skills.sort_by(|a, b| a.name.cmp(&b.name)), a stable sort
RECURSIVE SortByName(_)
SortByName(skills) ==
    IF skills = << >> THEN << >>
    ELSE InsertByName(SortByName(SubSeq(skills, 1, Len(skills) - 1)), skills[Len(skills)])

\* Option<String>: None is << >>, Some(p) is << p >>
None == << >>
Some(p) == << p >>

\* home/<agent path>/<n>
AgentSkillPath(agent, n) == << agent.path, n >>

\* DetailInstalled following the final link of an entry: a link to a
\* directory is listed as Local, a link to nothing is not listed
RECURSIVE DetailInstalledFollowing(_, _, _, _)
DetailInstalledFollowing(t, agent, global_skill_names, order) ==
    IF order = << >> THEN << >>
    ELSE LET n == Head(order)
             rest == DetailInstalledFollowing(t, agent, global_skill_names, Tail(order))
             probe == SymlinkMetadata(t, agent.id, n)
             resolves == /\ probe = "symlink"
                         /\ t.entry[agent.id][n].target = GlobalSkillPath(n)
                         /\ t.global[n].kind = "dir"
         IN  IF ~IsHidden(n) /\ (probe = "dir" \/ resolves)
             THEN << [ name |-> n,
                       metadata |-> load_skill_metadata(DocThrough(t, agent.id, n), n),
                       status |-> "Local",
                       source_path |-> Some(AgentSkillPath(agent, n)),
                       in_global |-> n \in global_skill_names ] >> \o rest
             ELSE rest

\* The loop over read_dir(home/<agent path>), which yields the entries in
\* the sequence `order`: symlinks and directories are listed, hidden names
\* and regular files are passed over.
RECURSIVE DetailInstalled(_, _, _, _)
DetailInstalled(t, agent, global_skill_names, order) ==
    IF order = << >> THEN << >>
    ELSE LET n == Head(order)
             rest == DetailInstalled(t, agent, global_skill_names, Tail(order))
             probe == SymlinkMetadata(t, agent.id, n)
         IN  CASE IsHidden(n) -> rest
               [] probe = "symlink" ->
                    << [ name |-> n,
                         metadata |-> load_skill_metadata(DocThrough(t, agent.id, n), n),
                         status |-> "Symlink",
                         source_path |-> Some(t.entry[agent.id][n].target),
                         in_global |-> n \in global_skill_names ] >> \o rest
               [] probe = "dir" ->
                    << [ name |-> n,
                         metadata |-> load_skill_metadata(DocThrough(t, agent.id, n), n),
                         status |-> "Local",
                         source_path |-> Some(AgentSkillPath(agent, n)),
                         in_global |-> n \in global_skill_names ] >> \o rest
               [] OTHER -> rest

\* NotInstalledSkill carrying the path of the repository copy
NotInstalledSkillWithPath(t, n) ==
    [ name |-> n,
      metadata |-> load_skill_metadata(t.global[n].doc, n),
      status |-> "NotInstalled",
      source_path |-> Some(GlobalSkillPath(n)),
      in_global |-> TRUE ]

\* The AgentSkill of a global skill the agent's directory did not show.
NotInstalledSkill(t, n) ==
    [ name |-> n,
      metadata |-> load_skill_metadata(t.global[n].doc, n),
      status |-> "NotInstalled",
      source_path |-> None,
      in_global |-> TRUE ]

\* The loop over global_skill_names, iterated in the sequence `order`.
RECURSIVE DetailNotInstalled(_, _, _, _)
DetailNotInstalled(t, global_skill_names, seen_skills, order) ==
    IF order = << >> THEN << >>
    ELSE LET n == Head(order)
             rest == DetailNotInstalled(t, global_skill_names, seen_skills, Tail(order))
         IN  IF n \in global_skill_names /\ n \notin seen_skills
             THEN << NotInstalledSkill(t, n) >> \o rest
             ELSE rest

get_agent_detail_with_home(t, agent_id, dir_order, global_order) ==
    IF agent_id \notin AgentIds
    THEN [ ok |-> FALSE, error |-> "Agent not found", agent_id |-> agent_id, skills |-> << >> ]
    ELSE LET agentList == detect_agents_with_home(t)
             agent == agentList[CHOOSE i \in 1..Len(agentList) : agentList[i].id = agent_id]
             global_skill_names == GlobalSkillNames(t)
             installed == IF agent.detected
                          THEN DetailInstalled(t, agent, global_skill_names, dir_order)
                          ELSE << >>
             seen_skills == { installed[i].name : i \in 1..Len(installed) }
             skills == installed \o DetailNotInstalled(t, global_skill_names,
                                                       seen_skills, global_order)
         IN  [ ok |-> TRUE, error |-> "", agent_id |-> agent_id,
               skills |-> SortByName(skills) ]

----------------------------------------------------------------------------
(* ViewSpec: entries appear below a fresh home, and the views are taken.   *)

NoView == [op |-> "none", ok |-> TRUE, error |-> "", agent_id |-> "", skills |-> << >>]

ViewInit ==
    /\ tree = EmptyTree
    /\ view = NoView
    /\ LinkUnused /\ DetectUnused /\ ParserUnused /\ RaceUnused /\ PathUnused

\* home/<agent path> is created, as a directory or as a regular file.
MakeAgentDir ==
    \E a \in AgentIds, k \in { "dir", "file" } :
        /\ tree.agentDir[a] = "absent"
        /\ EntryCount(tree) < MaxEntries
        /\ tree' = [tree EXCEPT !.agentDir[a] = k]
        /\ view' = NoView
        /\ UNCHANGED <<linkVars, detectVars, parserVars, raceVars, pathVars>>

\* An entry is put into the directory of an agent.
PutAgentEntry ==
    \E a \in AgentIds, n \in ViewNames :
        \E e \in AgentEntryChoices(n) :
            /\ tree.agentDir[a] = "dir"
            /\ tree.entry[a][n] = ViewAbsent
            /\ EntryCount(tree) < MaxEntries
            /\ tree' = [tree EXCEPT !.entry[a][n] = e]
            /\ view' = NoView
            /\ UNCHANGED <<linkVars, detectVars, parserVars, raceVars, pathVars>>

\* An entry is put into the repository, whose root is created with it.
PutGlobalEntry ==
    \E n \in ViewNames, e \in GlobalEntryChoices :
        /\ tree.global[n] = ViewAbsent
        /\ EntryCount(tree) < MaxEntries
        /\ tree' = [tree EXCEPT !.globalRoot = TRUE, !.global[n] = e]
        /\ view' = NoView
        /\ UNCHANGED <<linkVars, detectVars, parserVars, raceVars, pathVars>>

GetAppData ==
    \E order \in ListingOrders(GlobalListing(tree)) :
        /\ view' = [ op |-> "get_app_data", ok |-> TRUE, error |-> "", agent_id |-> "",
                     skills |-> get_app_data_with_home(tree, order).skills ]
        /\ UNCHANGED <<tree, linkVars, detectVars, parserVars, raceVars, pathVars>>

GetAgentDetail ==
    \E agent_id \in AgentInputs :
        \E dir_order \in ListingOrders(AgentListing(tree, agent_id)),
           global_order \in ListingOrders(GlobalSkillNames(tree)) :
        LET r == get_agent_detail_with_home(tree, agent_id, dir_order, global_order)
        IN  /\ view' = [ op |-> "get_agent_detail", ok |-> r.ok, error |-> r.error,
                         agent_id |-> agent_id, skills |-> r.skills ]
            /\ UNCHANGED <<tree, linkVars, detectVars, parserVars, raceVars, pathVars>>

ViewNext ==
    \/ MakeAgentDir
    \/ PutAgentEntry
    \/ PutGlobalEntry
    \/ GetAppData
    \/ GetAgentDetail

ViewSpec == ViewInit /\ [][ViewNext]_vars

----------------------------------------------------------------------------
(* Claims about the views *)

ScanReturned == view.op = "get_app_data"
DetailReturned == view.op = "get_agent_detail" /\ view.ok

\* The kind of what is at home/<agent path>/<n>, "absent" when nothing is.
TargetKind(a, n) == SymlinkMetadata(tree, a, n)

(* C15: in every Skill returned by the inventory scan, symlinkedAgents is  *)
(* a subset of linkedAgents; a detected agent is in linkedAgents exactly   *)
(* when its target path is a symlink or a non-symlink directory, and in    *)
(* symlinkedAgents exactly when it is a symlink; non-detected agents       *)
(* appear in neither set.                                                  *)
C15_ScanAgentSets ==
    ScanReturned =>
        \A i \in 1..Len(view.skills) :
            LET n == view.skills[i].name
                linked == Range(view.skills[i].linked_agents)
                symlinked == Range(view.skills[i].symlinked_agents)
            IN  /\ symlinked \subseteq linked
                /\ linked \subseteq AgentIds
                /\ \A a \in AgentIds :
                     IF Detected(tree, a)
                     THEN /\ a \in linked <=> TargetKind(a, n) \in { "symlink", "dir" }
                          /\ a \in symlinked <=> TargetKind(a, n) = "symlink"
                     ELSE a \notin linked /\ a \notin symlinked

\* the scan returned a skill that an agent holds as a local directory:
\* the agent is in linkedAgents and not in symlinkedAgents
C15_Witness ==
    /\ ScanReturned
    /\ \E i \in 1..Len(view.skills) : \E a \in AgentIds :
         /\ TargetKind(a, view.skills[i].name) = "dir"
         /\ a \in Range(view.skills[i].linked_agents)
         /\ a \notin Range(view.skills[i].symlinked_agents)

(* C16: in every AgentSkill returned by the agent-detail view, sourcePath  *)
(* is present if and only if status is not NotInstalled; an entry of the   *)
(* agent's directory that is a symlink gets status Symlink, a non-symlink  *)
(* directory gets Local (entries with hidden names are not listed), and    *)
(* NotInstalled entries always have inGlobal = true.                       *)
C16_AgentSkillStatus ==
    DetailReturned =>
        /\ \A i \in 1..Len(view.skills) :
             LET sk == view.skills[i]
                 kind == TargetKind(view.agent_id, sk.name)
             IN  /\ sk.source_path # None <=> sk.status # "NotInstalled"
                 /\ sk.status \in { "Symlink", "Local", "NotInstalled" }
                 /\ sk.status = "Symlink" <=> kind = "symlink"
                 /\ sk.status = "Local" <=> kind = "dir"
                 /\ sk.status = "NotInstalled" => sk.in_global
                 /\ ~IsHidden(sk.name)
        /\ \A n \in ViewNames :
             (~IsHidden(n) /\ TargetKind(view.agent_id, n) \in { "symlink", "dir" })
                => \E i \in 1..Len(view.skills) : view.skills[i].name = n

\* the detail of an agent listed a symlink (with its target as sourcePath)
\* next to a skill the agent does not have
C16_Witness ==
    /\ DetailReturned
    /\ \E i, j \in 1..Len(view.skills) :
         /\ view.skills[i].status = "Symlink"
         /\ view.skills[i].source_path = Some(GlobalSkillPath(view.skills[i].name))
         /\ view.skills[j].status = "NotInstalled"
         /\ view.skills[j].source_path = None

\* x sorts before y: x is a proper prefix of y, or smaller at the first difference
LexBefore(x, y) ==
    \E k \in 1..Len(y) :
        /\ \A j \in 1..(k - 1) : j <= Len(x) /\ x[j] = y[j]
        /\ Len(x) = k - 1 \/ (Len(x) >= k /\ x[k] < y[k])

(* C17: the agent-detail list contains each skill name at most once,       *)
(* contains every non-hidden global skill (as NotInstalled with no         *)
(* sourcePath when the agent does not have it, and all of them as          *)
(* NotInstalled when the agent is not detected), and is sorted             *)
(* lexicographically by skill name.                                        *)
C17_DetailListing ==
    DetailReturned =>
        LET names == [ i \in 1..Len(view.skills) |-> view.skills[i].name ] IN
        /\ NoDuplicates(names)
        /\ \A n \in ViewNames :
             IsGlobalSkill(tree, n) =>
                \E i \in 1..Len(view.skills) :
                    /\ view.skills[i].name = n
                    /\ TargetKind(view.agent_id, n) \notin { "symlink", "dir" } =>
                          /\ view.skills[i].status = "NotInstalled"
                          /\ view.skills[i].source_path = None
        /\ ~Detected(tree, view.agent_id) =>
              /\ Range(names) = GlobalSkillNames(tree)
              /\ \A i \in 1..Len(view.skills) : view.skills[i].status = "NotInstalled"
        /\ \A i, j \in 1..Len(view.skills) :
             i < j => LexBefore(NameBytes[names[i]], NameBytes[names[j]])

\* the detail lists the global skill "B" the agent lacks before the
\* agent's own "a", which the scan of its directory had collected first
C17_Witness ==
    /\ DetailReturned
    /\ Len(view.skills) = 2
    /\ view.skills[1].name = "B" /\ view.skills[1].status = "NotInstalled"
    /\ view.skills[2].name = "a" /\ view.skills[2].status = "Local"

----------------------------------------------------------------------------
(* The SKILL.md parser and formatter (skill_parser.rs)                     *)
(*                                                                         *)
(* A string is a sequence of characters, a character a string of length    *)
(* one; the content of a SKILL.md is one string, its lines separated by    *)
(* the newline character.  SkillMetadata is the record                     *)
(* [name, description, allowed_tools] of two strings and a sequence of     *)
(* strings.                                                                *)

NL == "\n"
QUOTE == "\""
BACKSLASH == "\\"
\* The grave accent, which cannot be written inside a string here.
BACKTICK == "grave"

\* char::is_whitespace, on the characters of the model
IsWhitespace(c) == c \in { " ", NL }

\* str::trim_start
RECURSIVE TrimStart(_)
TrimStart(s) ==
    IF s # << >> /\ IsWhitespace(Head(s)) THEN TrimStart(Tail(s)) ELSE s

\* str::trim_end
RECURSIVE TrimEnd(_)
TrimEnd(s) ==
    IF s # << >> /\ IsWhitespace(s[Len(s)]) THEN TrimEnd(SubSeq(s, 1, Len(s) - 1)) ELSE s

\* str::trim
Trim(s) == TrimEnd(TrimStart(s))

\* str::starts_with
StartsWith(s, p) == Len(s) >= Len(p) /\ SubSeq(s, 1, Len(p)) = p

\* &s[n..]
From(s, n) == SubSeq(s, n + 1, Len(s))

\* str::find: the position of the first occurrence of p in s, counted from
\* 1, and 0 for None
Find(s, p) ==
    LET hits == { i \in 1..(Len(s) - Len(p) + 1) : SubSeq(s, i, i + Len(p) - 1) = p }
    IN  IF hits = {} THEN 0 ELSE CHOOSE i \in hits : \A j \in hits : i <= j

\* str::contains
Contains(s, p) == Find(s, p) # 0

\* str::lines: the lines of s without their newline, no line after a final newline
RECURSIVE Lines(_)
Lines(s) ==
    IF s = << >> THEN << >>
    ELSE LET k == Find(s, << NL >>) IN
         IF k = 0 THEN << s >>
         ELSE << SubSeq(s, 1, k - 1) >> \o Lines(From(s, k))

\* [&str]::join(sep)
RECURSIVE Join(_, _)
Join(parts, sep) ==
    IF parts = << >> THEN << >>
    ELSE IF Len(parts) = 1 THEN parts[1]
    ELSE parts[1] \o sep \o Join(Tail(parts), sep)

\* char::to_lowercase, on the letters the model writes in upper case
LowerChar(c) ==
    CASE c = "A" -> "a"
      [] c = "T" -> "t"
      [] c = "N" -> "n"
      [] OTHER -> c

\* str::to_lowercase
to_lowercase(s) == [ i \in 1..Len(s) |-> LowerChar(s[i]) ]

SkillMetadata(name, description, allowed_tools) ==
    [ name |-> name, description |-> description, allowed_tools |-> allowed_tools ]

\* The metadata parse_heading_format starts from: String::new(), Vec::new()
DefaultMetadata == SkillMetadata(<< >>, << >>, << >>)

----------------------------------------------------------------------------
(* parse_heading_format *)

AllowedToolsText == << "a", "l", "l", "o", "w", "e", "d", " ", "t", "o", "o", "l", "s" >>

\* line.starts_with("# ") && !line.starts_with("## ")
IsNameHeading(line) == StartsWith(line, << "#", " " >>) /\ ~StartsWith(line, << "#", "#", " " >>)

\* The first loop: the index of the first name heading, 0 when there is none.
RECURSIVE NameHeadingIndex(_, _)
NameHeadingIndex(lines, i) ==
    IF i > Len(lines) THEN 0
    ELSE IF IsNameHeading(Trim(lines[i])) THEN i
    ELSE NameHeadingIndex(lines, i + 1)

\* while i < lines.len() && lines[i].trim().is_empty() { i += 1 }
RECURSIVE SkipEmptyLines(_, _)
SkipEmptyLines(lines, i) ==
    IF i <= Len(lines) /\ Trim(lines[i]) = << >> THEN SkipEmptyLines(lines, i + 1) ELSE i

\* The description loop: the index of the line that stops it.
RECURSIVE DescriptionEnd(_, _)
DescriptionEnd(lines, i) ==
    IF i > Len(lines) THEN i
    ELSE IF Trim(lines[i]) = << >> \/ StartsWith(Trim(lines[i]), << "#" >>) THEN i
    ELSE DescriptionEnd(lines, i + 1)

\* line.starts_with('#') && line.to_lowercase().contains("allowed tools")
IsAllowedToolsHeading(line) ==
    StartsWith(line, << "#" >>) /\ Contains(to_lowercase(line), AllowedToolsText)

\* The index of the first "Allowed Tools" heading from i on, 0 when there is none.
RECURSIVE AllowedToolsIndex(_, _)
AllowedToolsIndex(lines, i) ==
    IF i > Len(lines) THEN 0
    ELSE IF IsAllowedToolsHeading(Trim(lines[i])) THEN i
    ELSE AllowedToolsIndex(lines, i + 1)

\* The list loop running on past the next heading, to the end of the input
RECURSIVE ListItemsPastHeadings(_, _)
ListItemsPastHeadings(lines, i) ==
    IF i > Len(lines) THEN << >>
    ELSE LET item_line == Trim(lines[i]) IN
         IF (StartsWith(item_line, << "-", " " >>) \/ StartsWith(item_line, << "*", " " >>))
            /\ Trim(From(item_line, 2)) # << >>
         THEN << Trim(From(item_line, 2)) >> \o ListItemsPastHeadings(lines, i + 1)
         ELSE ListItemsPastHeadings(lines, i + 1)

\* The list loop: the items from line i to the next heading or the end.
RECURSIVE ListItems(_, _)
ListItems(lines, i) ==
    IF i > Len(lines) THEN << >>
    ELSE LET item_line == Trim(lines[i]) IN
         IF StartsWith(item_line, << "#" >>) THEN << >>
         ELSE IF (StartsWith(item_line, << "-", " " >>) \/ StartsWith(item_line, << "*", " " >>))
                 /\ Trim(From(item_line, 2)) # << >>
         THEN << Trim(From(item_line, 2)) >> \o ListItems(lines, i + 1)
         ELSE ListItems(lines, i + 1)

\* parse_heading_format reading the description and the tools from the top
\* when no name heading was found
parse_heading_format_from_top(content) ==
    LET lines == Lines(content)
        h == NameHeadingIndex(lines, 1)
        name == IF h = 0 THEN << >> ELSE Trim(From(Trim(lines[h]), 2))
        i1 == SkipEmptyLines(lines, h + 1)
        i2 == DescriptionEnd(lines, i1)
        description == Join([ k \in 1..(i2 - i1) |-> Trim(lines[i1 + k - 1]) ], << " " >>)
        t == AllowedToolsIndex(lines, i2)
        allowed_tools == IF t = 0 THEN << >>
                         ELSE ListItems(lines, SkipEmptyLines(lines, t + 1))
    IN  SkillMetadata(name, description, allowed_tools)

parse_heading_format(content) ==
    LET lines == Lines(content)
        h == NameHeadingIndex(lines, 1)
        name == IF h = 0 THEN << >> ELSE Trim(From(Trim(lines[h]), 2))
        i1 == SkipEmptyLines(lines, IF h = 0 THEN Len(lines) + 1 ELSE h + 1)
        i2 == DescriptionEnd(lines, i1)
        description == Join([ k \in 1..(i2 - i1) |-> Trim(lines[i1 + k - 1]) ], << " " >>)
        t == AllowedToolsIndex(lines, i2)
        allowed_tools == IF t = 0 THEN << >>
                         ELSE ListItems(lines, SkipEmptyLines(lines, t + 1))
    IN  SkillMetadata(name, description, allowed_tools)

----------------------------------------------------------------------------
(* serde_yaml::from_str::<FrontmatterData>                                 *)
(*                                                                         *)
(* The YAML the model reads is what format_skill_md writes and what the    *)
(* documents of the model contain: a block mapping at column 0 whose       *)
(* values stand on the line of their key (plain or double-quoted scalars), *)
(* a block sequence of scalars below a key without value, comment lines    *)
(* and blank lines.  Whatever else it meets is reported as an error.       *)

Delimiter == << "-", "-", "-" >>

KeyName == << "n", "a", "m", "e" >>
KeyDescription == << "d", "e", "s", "c", "r", "i", "p", "t", "i", "o", "n" >>
KeyAllowedTools == << "a", "l", "l", "o", "w", "e", "d", "-", "t", "o", "o", "l", "s" >>

ScalarError == [ok |-> FALSE, null |-> FALSE, value |-> << >>]
ScalarNull == [ok |-> TRUE, null |-> TRUE, value |-> << >>]
ScalarValue(v) == [ok |-> TRUE, null |-> FALSE, value |-> v]

\* The rest of a double-quoted scalar after its opening quote: the escapes
\* \\ and \" (the two format_yaml_field writes) are undone, the closing
\* quote must be followed by nothing but blanks.
RECURSIVE DoubleQuoted(_, _)
DoubleQuoted(rest, acc) ==
    IF rest = << >> THEN ScalarError
    ELSE IF Head(rest) = QUOTE
    THEN IF Trim(Tail(rest)) = << >> THEN ScalarValue(acc) ELSE ScalarError
    ELSE IF Head(rest) = BACKSLASH
    THEN IF Len(rest) >= 2 /\ rest[2] \in { BACKSLASH, QUOTE }
         THEN DoubleQuoted(From(rest, 2), Append(acc, rest[2]))
         ELSE ScalarError
    ELSE DoubleQuoted(Tail(rest), Append(acc, Head(rest)))

\* A ':' that ends a mapping key inside w: followed by a blank or by the end.
HasMappingColon(w) ==
    \E i \in 1..Len(w) : w[i] = ":" /\ (i = Len(w) \/ w[i + 1] = " ")

\* The node written after "key:" or after "- " on one line.
ScalarNode(v) ==
    LET w == Trim(v) IN
    CASE w = << >> -> ScalarNull
      [] Head(w) = QUOTE -> DoubleQuoted(Tail(w), << >>)
      [] Head(w) = "[" -> ScalarError                \* a flow sequence, never closed
      [] w = << "-" >> \/ StartsWith(w, << "-", " " >>) -> ScalarError   \* a nested sequence
      [] HasMappingColon(w) -> ScalarError           \* a nested mapping
      [] OTHER -> ScalarValue(w)                     \* a plain scalar, blanks trimmed

\* The position of the ':' that ends the key of a key line, 0 for no key line.
KeyColon(line) ==
    IF line = << >> \/ Head(line) \in { " ", "-", QUOTE, "[", "#" } THEN 0
    ELSE LET hits == { i \in 1..Len(line) :
                          line[i] = ":" /\ (i = Len(line) \/ line[i + 1] = " ") }
         IN  IF hits = {} THEN 0 ELSE CHOOSE i \in hits : \A j \in hits : i <= j

IsSequenceEntry(line) ==
    TrimStart(line) = << "-" >> \/ StartsWith(TrimStart(line), << "-", " " >>)

Indent(line) == Len(line) - Len(TrimStart(line))

\* A sequence entry without text, until it is known what serde_yaml makes of it.
NullNode == << "null" >>

EmptyFrontmatter == [ok |-> TRUE, name |-> None, description |-> None, allowed_tools |-> None]
YamlError == [ok |-> FALSE, name |-> None, description |-> None, allowed_tools |-> None]

\* One line of the mapping.  st is [doc, seen, open, indent]: the fields so
\* far, the keys met, the key a sequence entry would belong to ("" when
\* none can follow) and the column of the entries of the open sequence.
YamlLine(st, line) ==
    LET k == KeyColon(line) IN
    CASE ~st.doc.ok -> st
      [] Trim(line) = << >> \/ Head(Trim(line)) = "#" -> st
      [] IsSequenceEntry(line) ->
           LET item == ScalarNode(From(TrimStart(line), 1)) IN
           IF st.open = << >> \/ (st.indent >= 0 /\ st.indent # Indent(line)) \/ ~item.ok
              \/ st.open \in { KeyName, KeyDescription }
           THEN [st EXCEPT !.doc = YamlError]
           ELSE IF st.open = KeyAllowedTools
           THEN [st EXCEPT !.indent = Indent(line),
                           !.doc.allowed_tools =
                               Some((IF @ = None THEN << >> ELSE @[1])
                                        \o << IF item.null THEN NullNode ELSE item.value >>)]
           ELSE [st EXCEPT !.indent = Indent(line)]
      [] k > 0 ->
           LET key == SubSeq(line, 1, k - 1)
               node == ScalarNode(From(line, k))
               opened == [st EXCEPT !.seen = @ \cup { key }, !.open = key, !.indent = -1]
               closed == [opened EXCEPT !.open = << >>]
           IN  IF key \in st.seen \/ ~node.ok THEN [st EXCEPT !.doc = YamlError]
               ELSE IF node.null THEN opened
               ELSE IF key = KeyName THEN [closed EXCEPT !.doc.name = Some(node.value)]
               ELSE IF key = KeyDescription
               THEN [closed EXCEPT !.doc.description = Some(node.value)]
               ELSE IF key = KeyAllowedTools THEN [st EXCEPT !.doc = YamlError]
               ELSE closed
      [] OTHER -> [st EXCEPT !.doc = YamlError]

RECURSIVE YamlLines(_, _)
YamlLines(st, lines) ==
    IF lines = << >> THEN st ELSE YamlLines(YamlLine(st, Head(lines)), Tail(lines))

\* The document with v for every sequence entry without text.
ResolveNull(doc, v) ==
    IF doc.allowed_tools = None THEN doc
    ELSE LET tools == doc.allowed_tools[1]
         IN  [doc EXCEPT !.allowed_tools =
                  Some([ i \in 1..Len(tools) |-> IF tools[i] = NullNode THEN v ELSE tools[i] ])]

\* The results serde_yaml::from_str::<FrontmatterData> can give.  Two things
\* depend on the serde_yaml release the program is built with: a document
\* without any node gives Err or a FrontmatterData of three None, and a
\* sequence entry without text is read into a String as "" or as "~".
serde_yaml_from_str(yaml_content) ==
    LET st == YamlLines([doc |-> EmptyFrontmatter, seen |-> {}, open |-> << >>, indent |-> -1],
                        Lines(yaml_content))
    IN  IF st.doc.ok /\ st.seen = {} THEN { YamlError, EmptyFrontmatter }
        ELSE { ResolveNull(st.doc, << >>), ResolveNull(st.doc, << "~" >>) }

----------------------------------------------------------------------------
(* parse_frontmatter and parse_skill_md *)

\* The text between the delimiters: found is FALSE when the content does not
\* start with "---" (after leading whitespace) or no "\n---" follows.
FrontmatterBody(content) ==
    LET trimmed == TrimStart(content)
        after_first_delimiter == From(trimmed, 3)
        closing_pos == Find(after_first_delimiter, << NL >> \o Delimiter)
    IN  IF ~StartsWith(trimmed, Delimiter) \/ closing_pos = 0
        THEN [found |-> FALSE, yaml_content |-> << >>]
        ELSE [found |-> TRUE,
              yaml_content |-> Trim(SubSeq(after_first_delimiter, 1, closing_pos - 1))]

\* Option::unwrap_or_default
UnwrapOrDefault(opt) == IF opt = None THEN << >> ELSE opt[1]

\* parse_frontmatter without the .ok()? on what serde_yaml::from_str returned
parse_frontmatter_unchecked(content, frontmatter) ==
    IF ~FrontmatterBody(content).found THEN None
    ELSE Some(SkillMetadata(UnwrapOrDefault(frontmatter.name),
                            UnwrapOrDefault(frontmatter.description),
                            UnwrapOrDefault(frontmatter.allowed_tools)))

\* parse_frontmatter, frontmatter being what serde_yaml::from_str returned
parse_frontmatter(content, frontmatter) ==
    IF ~FrontmatterBody(content).found \/ ~frontmatter.ok THEN None
    ELSE Some(SkillMetadata(UnwrapOrDefault(frontmatter.name),
                            UnwrapOrDefault(frontmatter.description),
                            UnwrapOrDefault(frontmatter.allowed_tools)))

\* parse_skill_md filling what the frontmatter leaves empty from the headings
parse_skill_md_merging(content, frontmatter) ==
    LET parsed == parse_frontmatter(content, frontmatter)
        heading == parse_heading_format(content)
    IN  IF parsed = None THEN heading
        ELSE SkillMetadata(
                 IF parsed[1].name = << >> THEN heading.name ELSE parsed[1].name,
                 IF parsed[1].description = << >>
                 THEN heading.description ELSE parsed[1].description,
                 IF parsed[1].allowed_tools = << >>
                 THEN heading.allowed_tools ELSE parsed[1].allowed_tools)

parse_skill_md(content, frontmatter) ==
    LET parsed == parse_frontmatter(content, frontmatter)
    IN  IF parsed # None THEN parsed[1] ELSE parse_heading_format(content)

----------------------------------------------------------------------------
(* format_skill_md *)

special_chars == { ":", "#", "[", "]", "{", "}", ",", "&", "*", "!", "|", ">", "'", QUOTE,
                   "%", "@", BACKTICK }

ReservedWords ==
    { << "t", "r", "u", "e" >>, << "f", "a", "l", "s", "e" >>, << "y", "e", "s" >>,
      << "n", "o" >>, << "o", "n" >>, << "o", "f", "f" >>, << "n", "u", "l", "l" >>, << "~" >> }

needs_yaml_quoting(value) ==
    IF value = << >> THEN FALSE
    ELSE \/ \E i \in 1..Len(value) : value[i] \in special_chars
         \/ Head(value) \in { "-", "?", " " }
         \/ to_lowercase(value) \in ReservedWords

\* str::replace(c, "\\" + c)
RECURSIVE EscapeChar(_, _)
EscapeChar(s, c) ==
    IF s = << >> THEN << >>
    ELSE (IF Head(s) = c THEN << BACKSLASH, c >> ELSE << Head(s) >>) \o EscapeChar(Tail(s), c)

\* format_yaml_field escaping the quotes before the backslashes
format_yaml_field_quotes_first(key, value) ==
    IF needs_yaml_quoting(value)
    THEN key \o << ":", " ", QUOTE >> \o EscapeChar(EscapeChar(value, QUOTE), BACKSLASH)
             \o << QUOTE, NL >>
    ELSE key \o << ":", " " >> \o value \o << NL >>

format_yaml_field(key, value) ==
    IF needs_yaml_quoting(value)
    THEN key \o << ":", " ", QUOTE >> \o EscapeChar(EscapeChar(value, BACKSLASH), QUOTE)
             \o << QUOTE, NL >>
    ELSE key \o << ":", " " >> \o value \o << NL >>

\* for tool in &metadata.allowed_tools { "  - {}\n" }
RECURSIVE ToolLines(_)
ToolLines(tools) ==
    IF tools = << >> THEN << >>
    ELSE << " ", " ", "-", " " >> \o Head(tools) \o << NL >> \o ToolLines(Tail(tools))

format_skill_md(metadata) ==
    Delimiter \o << NL >>
        \o format_yaml_field(KeyName, metadata.name)
        \o format_yaml_field(KeyDescription, metadata.description)
        \o (IF metadata.allowed_tools # << >>
            THEN KeyAllowedTools \o << ":", NL >> \o ToolLines(metadata.allowed_tools)
            ELSE << >>)
        \o Delimiter \o << NL >>

----------------------------------------------------------------------------
(* ParserSpec: a SKILL.md content and a SkillMetadata, parsed and          *)
(* formatted in turn.                                                      *)

\* Field values have at most this many characters.
MaxLen == 2

\* The lines after the frontmatter are at most this many.
MaxLines == 3

\* Characters of names and descriptions: a letter, the blank, and the
\* characters format_yaml_field treats specially.
NameAlphabet == { "a", " ", "-", ":", QUOTE, BACKSLASH }

\* Characters of tool names, which are written without quotes.
ToolAlphabet == { "a", " ", "-", ":" }

Strings(alphabet, n) == UNION { [1..k -> alphabet] : k \in 0..n }

\* Names that read as a YAML boolean or null.
ReservedSamples == { << "N", "o" >>, << "~" >> }

NameStrings == Strings(NameAlphabet, MaxLen) \cup ReservedSamples
ToolStrings == Strings(ToolAlphabet, MaxLen)

\* The metadata given to format_skill_md: one field varies at a time.
Metas ==
    { SkillMetadata(s, d, << >>) : s \in NameStrings, d \in { << >>, << "a" >> } }
      \cup { SkillMetadata(n, s, << >>) : n \in { << >>, << "a" >> }, s \in NameStrings }
      \cup { SkillMetadata(<< "a" >>, << "a" >>, << t >>) : t \in ToolStrings }
      \cup { SkillMetadata(<< "a" >>, << >>, << t, u >>) : t \in ToolStrings, u \in ToolStrings }

LineNameA == KeyName \o << ":", " ", "a" >>
LineNameOpen == KeyName \o << ":", " ", "[" >>
LineDescriptionD == KeyDescription \o << ":", " ", "d" >>
LineTools == KeyAllowedTools \o << ":" >>
LineItemT == << "-", " ", "t" >>
LineHeadingB == << "#", " ", "b" >>
LineParagraphC == << "c" >>
LineToolsHeading == << "#", "#", " ", "A", "l", "l", "o", "w", "e", "d", " ", "T", "o", "o", "l", "s" >>

\* What a document starts with: nothing, or a frontmatter that is well
\* formed, unclosed, malformed, opened by "---" with text behind it on the
\* same line, empty, or no mapping.
FrontChoices ==
    { << >>,
      << Delimiter, LineNameA, Delimiter >>,
      << Delimiter, LineNameA >>,
      << Delimiter, LineNameOpen, Delimiter >>,
      << Delimiter \o LineNameA, Delimiter >>,
      << Delimiter, LineTools, LineItemT, Delimiter >>,
      << Delimiter, LineDescriptionD, Delimiter >>,
      << Delimiter, Delimiter >>,
      << Delimiter, LineParagraphC, Delimiter >>,
      << << >>, Delimiter, LineNameA, Delimiter >> }

\* The lines a document continues with.
HeadingLines == { LineHeadingB, LineParagraphC, << >>, LineToolsHeading, LineItemT }

Documents ==
    { Join(front \o rest, << NL >>) :
        front \in FrontChoices,
        rest \in UNION { [1..k -> HeadingLines] : k \in 0..MaxLines } }

\* Documents without frontmatter have at most this many lines.
MaxHeadingLines == 4

LineIndentedHeading == << " ", "#", " ", "b" >>
LineItemU == << "*", " ", " ", "u" >>

\* The lines of a document in heading format: headings at the margin and
\* indented, a paragraph, a blank line, the tools heading, list items with
\* either marker.
HeadingFormatLines == HeadingLines \cup { LineIndentedHeading, LineItemU }

HeadingDocuments ==
    { Join(lines, << NL >>) :
        lines \in UNION { [1..k -> HeadingFormatLines] : k \in 0..MaxHeadingLines } }

NoOperation == [op |-> "none", formatted |-> None, frontmatter |-> YamlError]

ParserInit ==
    /\ \/ text \in Documents \cup HeadingDocuments /\ meta = DefaultMetadata
       \/ text = << >> /\ meta \in Metas
    /\ last = NoOperation
    /\ LinkUnused /\ DetectUnused /\ ViewUnused /\ RaceUnused /\ PathUnused

\* meta = parse_skill_md(text); last remembers what serde_yaml returned and,
\* when the text had just been written by format_skill_md, the metadata it
\* was written from.
ParseSkillMd ==
    \E frontmatter \in serde_yaml_from_str(FrontmatterBody(text).yaml_content) :
        /\ meta' = parse_skill_md(text, frontmatter)
        /\ last' = [ op |-> "parse",
                     formatted |-> IF last.op = "format" THEN Some(meta) ELSE None,
                     frontmatter |-> frontmatter ]
        /\ UNCHANGED <<text, linkVars, detectVars, viewVars, raceVars, pathVars>>

\* text = format_skill_md(meta)
FormatSkillMd ==
    /\ text' = format_skill_md(meta)
    /\ last' = [ op |-> "format", formatted |-> None, frontmatter |-> YamlError ]
    /\ UNCHANGED <<meta, linkVars, detectVars, viewVars, raceVars, pathVars>>

ParserNext ==
    \/ ParseSkillMd
    \/ FormatSkillMd

ParserSpec == ParserInit /\ [][ParserNext]_vars

----------------------------------------------------------------------------
(* Claims about the parser and the formatter *)

\* The text has just been written by format_skill_md and parsed again.
RoundTripped == last.op = "parse" /\ last.formatted # None

\* The metadata the text was written from.
Formatted == last.formatted[1]

\* Name and description are written by format_yaml_field, which puts a value
\* between double quotes when it holds a character YAML reads as syntax and
\* escapes the two characters that mean something between double quotes;
\* what it cannot write on the one line of the field is a line break.  Tool
\* names are written as they are, so every character of special_chars is
\* one the formatter cannot escape there.
FreeOfUnescapable(m) ==
    /\ \A i \in 1..Len(m.name) : m.name[i] # NL
    /\ \A i \in 1..Len(m.description) : m.description[i] # NL
    /\ \A t \in 1..Len(m.allowed_tools) :
           \A i \in 1..Len(m.allowed_tools[t]) :
               m.allowed_tools[t][i] \notin special_chars \cup { NL }

EndsWithWhitespace(s) == s # << >> /\ IsWhitespace(s[Len(s)])

\* A name or description that format_yaml_field writes without quotes
\* keeps its last character only when that is no whitespace.
FieldKept(s) == needs_yaml_quoting(s) \/ ~EndsWithWhitespace(s)

\* A tool name that reads back as itself: not empty, no whitespace at
\* either end, and not the start of a nested sequence.
ToolKept(t) ==
    /\ t # << >>
    /\ ~IsWhitespace(Head(t))
    /\ ~EndsWithWhitespace(t)
    /\ ~IsSequenceEntry(t)

Parsed == last.op = "parse"

\* The text begins, after leading whitespace, with the three characters
\* "---" (what parse_frontmatter requires of the opening delimiter).
OpensWithDelimiter(content) == StartsWith(TrimStart(content), Delimiter)

\* The position of the first "\n---" behind the opening "---", 0 for none.
ClosingMarker(content) == Find(From(TrimStart(content), 3), << NL >> \o Delimiter)

\* The text holds valid frontmatter: both delimiters, and a body that
\* serde_yaml read as the expected mapping.
ValidFrontmatter ==
    OpensWithDelimiter(text) /\ ClosingMarker(text) > 0 /\ last.frontmatter.ok

\* The text up to and including the closing "\n---", without what follows.
FrontmatterOnly(content) ==
    SubSeq(content, 1,
           (Len(content) - Len(TrimStart(content))) + 3 + (ClosingMarker(content) - 1) + 4)

\* C19: when the text contains valid frontmatter, the result is taken from
\* the frontmatter alone: every field is the value of its key, empty when
\* the key is unset, and the result is the same as for the text cut behind
\* the closing delimiter, so heading-format content later in the text adds
\* nothing.
C19_FrontmatterPrecedence ==
    Parsed /\ ValidFrontmatter =>
        /\ meta.name = (IF last.frontmatter.name = None THEN << >> ELSE last.frontmatter.name[1])
        /\ meta.description =
               (IF last.frontmatter.description = None
                THEN << >> ELSE last.frontmatter.description[1])
        /\ meta.allowed_tools =
               (IF last.frontmatter.allowed_tools = None
                THEN << >> ELSE last.frontmatter.allowed_tools[1])
        /\ meta = parse_skill_md(FrontmatterOnly(text), last.frontmatter)

\* A frontmatter with only a name, followed by a heading, a paragraph and a
\* tool list the heading format would read: the result has the name alone.
C19_Witness ==
    /\ Parsed /\ ValidFrontmatter
    /\ last.frontmatter.description = None
    /\ parse_heading_format(text).description # << >>
    /\ parse_heading_format(text).name # << >>
    /\ meta = SkillMetadata(<< "a" >>, << >>, << >>)

\* The text begins, after leading whitespace, with a line consisting of
\* exactly "---" (the specification's opening delimiter).
OpensWithDelimiterLine(content) ==
    LET lines == Lines(TrimStart(content)) IN lines # << >> /\ Head(lines) = Delimiter

IsSkillMetadata(m) == DOMAIN m = { "name", "description", "allowed_tools" }

\* C20 as the specification states it, the opening delimiter being a line
\* consisting of exactly "---".
C20_AsStated ==
    Parsed =>
        /\ IsSkillMetadata(meta)
        /\ (~OpensWithDelimiterLine(text) \/ ClosingMarker(text) = 0 \/ ~last.frontmatter.ok
            => meta = parse_heading_format(text))

\* C20: parse always returns a SkillMetadata, and whenever the text, after
\* leading whitespace, does not begin with the characters "---", or no
\* newline-then-"---" marker follows them, or the frontmatter body fails to
\* parse as the expected mapping, the result is exactly the heading-format
\* parse of the whole text.
C20_ParseNeverFails ==
    Parsed =>
        /\ IsSkillMetadata(meta)
        /\ (~OpensWithDelimiter(text) \/ ClosingMarker(text) = 0 \/ ~last.frontmatter.ok
            => meta = parse_heading_format(text))

\* A frontmatter whose body is no mapping, followed by a heading: the name
\* is the heading's.
C20_Witness ==
    /\ Parsed
    /\ OpensWithDelimiter(text) /\ ClosingMarker(text) > 0 /\ ~last.frontmatter.ok
    /\ meta = parse_heading_format(text)
    /\ meta.name = << "b" >>

\* The fixed placeholder description of the inventory layer.
Placeholder == "No description available"

(* C21: in every Skill the inventory scan returns, the directory name      *)
(* replaces name exactly when the parsed name is empty, the placeholder    *)
(* replaces description exactly when the parsed description is empty, each *)
(* whatever the other field is; a non-empty parsed field and the parsed    *)
(* tools are returned as parsed; a missing or unreadable descriptor gives  *)
(* the directory name, the placeholder and no tools.                       *)
C21_FallbackSubstitution ==
    ScanReturned =>
        \A i \in 1..Len(view.skills) :
            LET dir_name == view.skills[i].name
                parsed == tree.global[dir_name].doc
                metadata == view.skills[i].metadata
            IN  IF parsed.present
                THEN /\ parsed.name = "" => metadata.name = dir_name
                     /\ parsed.name # "" => metadata.name = parsed.name
                     /\ parsed.description = "" => metadata.description = Placeholder
                     /\ parsed.description # "" => metadata.description = parsed.description
                     /\ metadata.allowed_tools = parsed.allowed_tools
                ELSE metadata = [ name |-> dir_name, description |-> Placeholder,
                                  allowed_tools |-> << >> ]

\* the scan returned a skill whose SKILL.md has a description and no name:
\* the directory name is substituted, the description is kept
C21_Witness ==
    /\ ScanReturned
    /\ \E i \in 1..Len(view.skills) :
         /\ tree.global[view.skills[i].name].doc = DescribedDoc
         /\ view.skills[i].metadata.name = view.skills[i].name
         /\ view.skills[i].metadata.description = "Text"
         /\ view.skills[i].metadata.allowed_tools = << "tool" >>

----------------------------------------------------------------------------
(* Claims about the links the commands create and keep *)

\* The symlinks at agent target paths that the last call made: no symlink,
\* or another one, was there before.
CreatedLinks ==
    { x \in AgentIds \X Skills :
        /\ fs.entry[x[1]][x[2]].kind = "symlink"
        /\ fs.entry[x[1]][x[2]] # before.entry[x[1]][x[2]] }

\* Only the repository copy of s and the directory of agent a are present.
OnlyPresent(f, a, s) ==
    /\ f.global[s] = "dir"
    /\ f.agentDir[a] = "dir"
    /\ \A b \in AgentIds \ { a } : f.agentDir[b] = "absent"
    /\ \A n \in Skills : f.entry[a][n] = NoEntry

(* C22: every symlink that linkToAll or toggleSingle(enable) creates at an *)
(* agent's target path home/<agent path>/<skill> has as its target the     *)
(* repository copy home/.agents/skills/<skill> of the same skill; with     *)
(* only the repository copy and one agent's directory present, linkToAll   *)
(* returns success = [that agent], failed = [] and the agent's entry       *)
(* points at the repository copy.                                          *)
C22_LinkTarget ==
    /\ (LinkAllReturned \/ ToggleEnableReturned) =>
          \A x \in CreatedLinks :
              /\ x[2] = res.call.skill_name
              /\ fs.entry[x[1]][x[2]].target = GlobalSkillPath(x[2])
    /\ LinkAllReturned =>
          \A a \in AgentIds :
              OnlyPresent(before, a, res.call.skill_name) =>
                  /\ res.success = << a >>
                  /\ res.failed = << >>
                  /\ fs.entry[a][res.call.skill_name]
                         = SymlinkEntry(GlobalSkillPath(res.call.skill_name))

\* linkToAll ran with only the repository copy and one agent's directory
\* present and made that agent's link
C22_Witness ==
    /\ LinkAllReturned
    /\ \E a \in AgentIds :
         /\ OnlyPresent(before, a, res.call.skill_name)
         /\ << a, res.call.skill_name >> \in CreatedLinks
         /\ res.success = << a >>

(* C23: for a detected agent whose target path is already a symlink,       *)
(* linkToAll records the agent in success and changes nothing of that      *)
(* agent on the filesystem: the link is kept with the target it had, be    *)
(* that the repository copy or anything else, resolving or not.            *)
C23_ExistingLinkKept ==
    LinkAllReturned =>
        \A a \in AgentIds :
            LET s == res.call.skill_name IN
            (Detected(before, a) /\ SymlinkMetadata(before, a, s) = "symlink") =>
                /\ a \in SuccessIds
                /\ a \notin FailedIds
                /\ fs.agentDir[a] = before.agentDir[a]
                /\ fs.entry[a][s].kind = "symlink"
                /\ fs.entry[a][s].target = before.entry[a][s].target

\* linkToAll met a link that points outside the repository and kept it
C23_Witness ==
    /\ LinkAllReturned
    /\ \E a \in AgentIds :
         /\ before.entry[a][res.call.skill_name] = SymlinkEntry(ForeignTarget)
         /\ fs.entry[a][res.call.skill_name] = SymlinkEntry(ForeignTarget)
         /\ a \in SuccessIds

----------------------------------------------------------------------------
(* The reference algorithm of the heading format, on a sequence of lines   *)

\* The least index from i on whose line satisfies Test, Len(lines) + 1 when
\* there is none.
FirstFrom(lines, i, Test(_)) ==
    LET hits == { k \in i..Len(lines) : Test(lines[k]) }
    IN  IF hits = {} THEN Len(lines) + 1 ELSE CHOOSE k \in hits : \A j \in hits : k <= j

IsBlank(line) == Trim(line) = << >>
NotBlank(line) == ~IsBlank(line)
BeginsWithNameMarker(line) == StartsWith(line, << "#", " " >>)
BeginsWithHash(line) == StartsWith(line, << "#" >>)
EndsParagraph(line) == IsBlank(line) \/ BeginsWithHash(line)
IsToolsHeading(line) ==
    BeginsWithHash(line)
        /\ \E k \in 1..(Len(line) - Len(AllowedToolsText) + 1) :
               to_lowercase(SubSeq(line, k, k + Len(AllowedToolsText) - 1)) = AllowedToolsText
IsListItem(line) == StartsWith(line, << "-", " " >>) \/ StartsWith(line, << "*", " " >>)

\* The text of the list items among lines[from..to], in order.
RECURSIVE ItemsBetween(_, _, _)
ItemsBetween(lines, from, to) ==
    IF from > to THEN << >>
    ELSE (IF IsListItem(lines[from]) THEN << Trim(From(lines[from], 2)) >> ELSE << >>)
             \o ItemsBetween(lines, from + 1, to)

\* Name, description and allowedTools of a sequence of lines.
ReferenceHeadingParse(lines) ==
    LET end == Len(lines) + 1
        heading == FirstFrom(lines, 1, BeginsWithNameMarker)
        first == FirstFrom(lines, heading + 1, NotBlank)
        stop == FirstFrom(lines, first, EndsParagraph)
        tools == FirstFrom(lines, stop, IsToolsHeading)
        item == FirstFrom(lines, tools + 1, NotBlank)
        next == FirstFrom(lines, item, BeginsWithHash)
    IN  [ name |-> IF heading = end THEN << >> ELSE Trim(From(lines[heading], 2)),
          description |-> Join([ k \in 1..(stop - first) |-> Trim(lines[first + k - 1]) ],
                               << " " >>),
          allowed_tools |-> IF tools = end THEN << >> ELSE ItemsBetween(lines, item, next - 1) ]

\* The lines of a text, each without the whitespace around it.
TrimmedLines(content) == [ k \in 1..Len(Lines(content)) |-> Trim(Lines(content)[k]) ]

\* parse_skill_md has just returned the heading-format parse of the text.
HeadingParsed == Parsed /\ ~ValidFrontmatter

\* C24 as the specification states it: the heading-format parser agrees
\* with the reference algorithm on the lines of the text as they stand.
C24_AsStated == HeadingParsed => meta = ReferenceHeadingParse(Lines(text))

\* C24: the heading-format parser agrees with the reference algorithm on
\* every sequence of lines, each line being taken without the whitespace
\* around it: name is the text of the first line beginning with "# ",
\* description the following non-blank non-heading lines joined by single
\* spaces, allowedTools the "- " and "* " items under the first later
\* heading that contains "allowed tools", up to the next heading.
C24_HeadingReference == HeadingParsed => meta = ReferenceHeadingParse(TrimmedLines(text))

\* A name heading, a tools heading without items and a second tools
\* heading with an item: the second section is ignored.
C24_Witness ==
    /\ HeadingParsed
    /\ Lines(text) = << LineHeadingB, LineToolsHeading, LineToolsHeading, LineItemT >>
    /\ meta = SkillMetadata(<< "b" >>, << >>, << >>)

\* No line of the text begins with "# ".
NoNameMarkerLine(content) ==
    \A k \in 1..Len(Lines(content)) : ~BeginsWithNameMarker(Lines(content)[k])

\* No line of the text begins with "# " once the whitespace around it is
\* taken off.
NoNameHeading(content) ==
    \A k \in 1..Len(Lines(content)) : ~BeginsWithNameMarker(Trim(Lines(content)[k]))

\* A heading-format result without a name has no description and no tools.
EmptyNameMeansEmpty ==
    HeadingParsed /\ meta.name = << >> =>
        meta.description = << >> /\ meta.allowed_tools = << >>

\* C29 as the specification states it: a text parsed in heading format that
\* contains no line beginning with "# " gives an all-empty result.
C29_AsStated ==
    /\ HeadingParsed /\ NoNameMarkerLine(text) =>
          meta = SkillMetadata(<< >>, << >>, << >>)
    /\ EmptyNameMeansEmpty

\* C29: when the text is parsed in heading format and no line of it, taken
\* without the whitespace around it, begins with "# ", the whole result is
\* empty: name, description and allowedTools, whatever paragraphs or
\* "Allowed Tools" sections the text contains; so an empty name with a
\* description can only come from frontmatter.
C29_NoHeadingAllEmpty ==
    /\ HeadingParsed /\ NoNameHeading(text) =>
          meta = SkillMetadata(<< >>, << >>, << >>)
    /\ EmptyNameMeansEmpty

\* A paragraph and a tools section with an item, but no name heading.
C29_Witness ==
    /\ HeadingParsed
    /\ Lines(text) = << LineParagraphC, LineToolsHeading, LineItemT >>
    /\ NoNameHeading(text)
    /\ meta = SkillMetadata(<< >>, << >>, << >>)

----------------------------------------------------------------------------
(* RaceSpec: unlink_skill_from_all_with_home one filesystem call at a      *)
(* time, with an external process that changes entries at the agents'      *)
(* target paths in between.                                                *)
(*                                                                         *)
(* unlink is [pc, i, skill_name, success, failed, attempts, external]:     *)
(* where the call stands ("idle", "probe": before symlink_metadata for     *)
(* Catalog[i], "remove": before remove_file for Catalog[i], "done"), the   *)
(* two result lists so far, the remove_file calls made so far (each with   *)
(* the kind of entry it met and whether it succeeded), and the number of   *)
(* changes the external process has made.                                  *)

\* The external process changes an entry at most this many times.
MaxExternalChanges == 1

UnlinkIdle ==
    [ pc |-> "idle", i |-> 1, skill_name |-> "", success |-> << >>, failed |-> << >>,
      attempts |-> << >>, external |-> 0 ]

\* unlink_skill_from_all_with_home never looks at the repository: the runs
\* start with the repository copy in place.
RaceStates == { f \in FsStates : \A s \in Skills : f.global[s] = "dir" }

RaceInit ==
    /\ fs \in RaceStates
    /\ before = fs
    /\ res = NoCall
    /\ prev = NoCall
    /\ unlink = UnlinkIdle
    /\ DetectUnused /\ ViewUnused /\ ParserUnused /\ PathUnused

\* The call is entered: the two lists are empty, the loop is at the first
\* catalog entry.
UnlinkCalled ==
    /\ unlink.pc = "idle"
    /\ \E s \in Skills : unlink' = [unlink EXCEPT !.pc = "probe", !.skill_name = s]
    /\ before' = fs
    /\ UNCHANGED <<fs, res, prev, detectVars, viewVars, parserVars, pathVars>>

\* match fs::symlink_metadata(&agent_skill_path): a symlink leads to
\* remove_file, anything else to the next catalog entry.
UnlinkProbe ==
    /\ unlink.pc = "probe"
    /\ unlink.i <= Len(Catalog)
    /\ unlink' = IF SymlinkMetadata(fs, Catalog[unlink.i].id, unlink.skill_name) = "symlink"
                 THEN [unlink EXCEPT !.pc = "remove"]
                 ELSE [unlink EXCEPT !.i = @ + 1]
    /\ UNCHANGED <<linkVars, detectVars, viewVars, parserVars, pathVars>>

\* match fs::remove_file(&agent_skill_path), on what is at the path now
UnlinkRemove ==
    /\ unlink.pc = "remove"
    /\ LET id == Catalog[unlink.i].id
           removed == RemoveFile(fs, id, unlink.skill_name)
           attempt == [ agent_id |-> id,
                        kind |-> SymlinkMetadata(fs, id, unlink.skill_name),
                        ok |-> removed.ok ]
       IN  /\ fs' = removed.fs
           /\ unlink' = [unlink EXCEPT
                  !.pc = "probe",
                  !.i = @ + 1,
                  !.attempts = Append(@, attempt),
                  !.success = IF removed.ok THEN Append(@, id) ELSE @,
                  !.failed = IF removed.ok THEN @
                             ELSE Append(@, FailedOperation(id, "Failed to remove symlink"))]
    /\ UNCHANGED <<before, res, prev, detectVars, viewVars, parserVars, pathVars>>

\* Ok(BatchResult { success, failed })
UnlinkReturns ==
    /\ unlink.pc = "probe"
    /\ unlink.i > Len(Catalog)
    /\ res' = [ call |-> Call("unlink_skill_from_all", "", unlink.skill_name, FALSE),
                ok |-> TRUE, error |-> "",
                success |-> unlink.success, failed |-> unlink.failed ]
    /\ unlink' = [unlink EXCEPT !.pc = "done"]
    /\ UNCHANGED <<fs, before, prev, detectVars, viewVars, parserVars, pathVars>>

\* An external process puts something else at an agent's target path while
\* the call is running.
ExternalChange ==
    /\ unlink.pc \in { "probe", "remove" }
    /\ unlink.external < MaxExternalChanges
    /\ \E a \in AgentIds, s \in Skills :
         /\ IsDirectory(fs, a)
         /\ \E e \in Entries(s) \ { fs.entry[a][s] } : fs' = SetEntry(fs, a, s, e)
    /\ unlink' = [unlink EXCEPT !.external = @ + 1]
    /\ UNCHANGED <<before, res, prev, detectVars, viewVars, parserVars, pathVars>>

RaceNext ==
    \/ UnlinkCalled
    \/ UnlinkProbe
    \/ UnlinkRemove
    \/ UnlinkReturns
    \/ ExternalChange

RaceSpec == RaceInit /\ [][RaceNext]_vars

\* Without an external change the call by call run returns what the whole
\* command returns.
RaceRefinesUnlink ==
    unlink.pc = "done" /\ unlink.external = 0 =>
        LET r == unlink_skill_from_all_with_home(before, res.call.skill_name)
        IN  fs = r.fs /\ res.success = r.success /\ res.failed = r.failed

\* C25 as the specification states it: every entry unlinkFromAll removes is
\* a symlink at the moment of removal, whatever an external process did
\* between the probe and the removal.
C25_AsStated ==
    \A k \in 1..Len(unlink.attempts) :
        unlink.attempts[k].ok => unlink.attempts[k].kind = "symlink"

\* C25: unlinkFromAll calls the removal only for entries that were symlinks
\* at its type probe; when an external process changes the entry between
\* the probe and the removal, a directory swapped in is not deleted (the
\* removal fails and the agent is recorded in failed), but a regular file
\* swapped in is deleted like a symlink and the agent recorded in success.
C25_RemovalAfterProbe ==
    \A k \in 1..Len(unlink.attempts) :
        LET attempt == unlink.attempts[k] IN
        /\ attempt.ok => attempt.kind \in { "symlink", "file" }
        /\ attempt.kind \in { "dir", "absent" } => ~attempt.ok
        /\ attempt.ok <=> attempt.agent_id \in Range(unlink.success)
        /\ ~attempt.ok <=> \E j \in 1..Len(unlink.failed) :
                               unlink.failed[j].agent_id = attempt.agent_id
        /\ (attempt.kind = "file" /\ fs.agentDir[attempt.agent_id] = "dir") => attempt.ok

\* a directory was swapped in after the probe: the removal failed, the
\* directory is still there and the agent is in failed
C25_Witness ==
    /\ unlink.pc = "done"
    /\ \E k \in 1..Len(unlink.attempts) :
         /\ unlink.attempts[k].kind = "dir"
         /\ ~unlink.attempts[k].ok
         /\ fs.entry[unlink.attempts[k].agent_id][unlink.skill_name] = DirEntry
         /\ \E j \in 1..Len(res.failed) :
              res.failed[j].agent_id = unlink.attempts[k].agent_id

\* The status detail gives the skill named n, "none" when it does not list it.
StatusIn(skills, n) ==
    IF \E i \in 1..Len(skills) : skills[i].name = n
    THEN skills[CHOOSE i \in 1..Len(skills) : skills[i].name = n].status
    ELSE "none"

\* Every list of AgentSkill the detail of agent a can return on the tree.
DetailsOf(a) ==
    { get_agent_detail_with_home(tree, a, dir_order, global_order).skills :
        dir_order \in ListingOrders(AgentListing(tree, a)),
        global_order \in ListingOrders(GlobalSkillNames(tree)) }

\* Every list of Skill the scan can return on the tree.
ScansOf == { get_app_data_with_home(tree, order).skills :
               order \in ListingOrders(GlobalListing(tree)) }

\* The skill sk of a scan and the list `detail` of agent a say the same.
ViewsAgree(sk, a, detail) ==
    LET status == StatusIn(detail, sk.name) IN
    /\ a \in Range(sk.linked_agents) <=> status \in { "Symlink", "Local" }
    /\ a \in Range(sk.symlinked_agents) <=> status = "Symlink"
    /\ TargetKind(a, sk.name) = "file" =>
           status = "NotInstalled" /\ a \notin Range(sk.linked_agents)

(* C26: on every filesystem state the two views agree: for every detected  *)
(* agent a and every non-hidden global skill s, a is in the scan's         *)
(* linkedAgents for s exactly when detail(a) lists s as Symlink or Local,  *)
(* and in symlinkedAgents exactly when detail(a) lists s as Symlink; a     *)
(* regular file at the target path makes s NotInstalled in the detail and  *)
(* absent from linkedAgents.                                               *)
C26_ViewsAgree ==
    /\ ScanReturned =>
          \A i \in 1..Len(view.skills) : \A a \in AgentIds :
              Detected(tree, a) =>
                  \A detail \in DetailsOf(a) : ViewsAgree(view.skills[i], a, detail)
    /\ (DetailReturned /\ Detected(tree, view.agent_id)) =>
          \A scan \in ScansOf : \A i \in 1..Len(scan) :
              ViewsAgree(scan[i], view.agent_id, view.skills)

\* the scan returned a skill at whose target path a detected agent has a
\* regular file: the agent is not in linked_agents and its detail lists the
\* skill as NotInstalled
C26_Witness ==
    /\ ScanReturned
    /\ \E i \in 1..Len(view.skills) : \E b \in AgentIds :
         /\ Detected(tree, b)
         /\ TargetKind(b, view.skills[i].name) = "file"
         /\ b \notin Range(view.skills[i].linked_agents)
         /\ \A detail \in DetailsOf(b) :
                StatusIn(detail, view.skills[i].name) = "NotInstalled"

----------------------------------------------------------------------------
\* linkToAll(s) returned a BatchResult without failures, having started
\* where the repository copy existed and no agent had an entry named s.
LinkedFromClean ==
    /\ LinkAllReturned
    /\ res.failed = << >>
    /\ GlobalSkillExists(before, res.call.skill_name)
    /\ \A a \in AgentIds : before.entry[a][res.call.skill_name] = NoEntry

(* C27: link/unlink round trip.  From any state in which the global skill  *)
(* s exists and no agent has an entry named s, linkToAll(s) followed by    *)
(* unlinkFromAll(s), with no I/O failure, restores every agent directory   *)
(* to its starting contents, and the success list of the unlink equals the *)
(* success list of the link (same ids, both in catalog order).             *)
C27_LinkUnlinkRoundTrip ==
    LinkedFromClean =>
        LET undone == unlink_skill_from_all_with_home(fs, res.call.skill_name) IN
        /\ undone.ok
        /\ undone.failed = << >>
        /\ undone.fs = before
        /\ undone.success = res.success

\* linkToAll made a link for every agent of the catalog from a state
\* without entries, and the unlinkFromAll that follows takes them all away
C27_Witness ==
    /\ LinkedFromClean
    /\ Len(res.success) = Len(Catalog)
    /\ \A a \in AgentIds : HasSymlink(fs, a, res.call.skill_name)
    /\ unlink_skill_from_all_with_home(fs, res.call.skill_name).fs = before

----------------------------------------------------------------------------
\* The last command changed which agents are detected.
DetectionChanged == DetectedAgents(fs) # DetectedAgents(before)

----------------------------------------------------------------------------
(* PathSpec: the five commands on paths.  A skill name reaches the         *)
(* commands as a string of the caller's choosing and is joined to the      *)
(* agent's path and to the repository path as it stands; here a path is    *)
(* the sequence of its components below home, ".." included, and the       *)
(* operating system resolves it component by component.                    *)
(*                                                                         *)
(* disk maps each path of DiskPaths to what is there ("absent", "dir",     *)
(* "file", "symlink": a link to the repository copy of the skill),         *)
(* earlier is the disk the last command ran on, ran the last command with  *)
(* its result.  The directories above the entries are real directories:    *)
(* no agent directory is a link.  Nothing above home can be seen or        *)
(* written.                                                                *)

PathSkill == "demo"

\* get_global_skills_path(), below home
GlobalSkillsPath == << ".agents", "skills" >>

\* home.join(&agent.path), below home
AgentPath(a) == AgentPathComponents[CHOOSE i \in 1..Len(Catalog) : Catalog[i].id = a]

\* "../../../.agents/skills/demo": from the directory of an agent three
\* levels below home, the repository copy
ClimbingName == << "..", "..", "..", ".agents", "skills", PathSkill >>

SkillNameInputs == { << PathSkill >>, ClimbingName }

RepositoryCopy == Append(GlobalSkillsPath, PathSkill)

DiskPaths ==
    UNION { Prefixes(AgentPath(a)) \cup { Append(AgentPath(a), PathSkill) } : a \in AgentIds }
      \cup Prefixes(GlobalSkillsPath) \cup { RepositoryCopy }

EntryPaths == { Append(AgentPath(a), PathSkill) : a \in AgentIds }

KindAt(d, p) == IF p = << >> THEN "dir" ELSE IF p \in DiskPaths THEN d[p] ELSE "absent"

\* The directories above the entries.
DirPaths == DiskPaths \ (EntryPaths \cup { RepositoryCopy })

\* The disk with the directories `dirs` and the entries `kinds`.
DiskOf(dirs, kinds) ==
    [ p \in DiskPaths |->
        IF p \in DirPaths THEN (IF p \in dirs THEN "dir" ELSE "absent") ELSE kinds[p] ]

\* The disks the commands can meet: an entry has a directory above it, the
\* repository copy is a directory or a file, links are at agents only.
DiskStates ==
    { DiskOf(x[1], x[2]) :
        x \in { y \in (SUBSET DirPaths) \X
                         [EntryPaths \cup { RepositoryCopy } -> { "absent", "dir", "file", "symlink" }] :
                 /\ \A p \in y[1] : Len(p) > 1 => SubSeq(p, 1, Len(p) - 1) \in y[1]
                 /\ \A p \in DOMAIN y[2] :
                        y[2][p] # "absent" => SubSeq(p, 1, Len(p) - 1) \in y[1]
                 /\ y[2][RepositoryCopy] # "symlink" } }

Lost == [ok |-> FALSE, path |-> << >>]

\* F(x), with x evaluated before F is applied: the result of one call handed
\* to the next
Then(x, F(_)) == CHOOSE r \in { F(v) : v \in { x } } : TRUE

\* Path resolution by the operating system: `at` is the directory reached,
\* `rest` the components still to walk.  Every component is looked up in a
\* directory (a link to one is followed); ".." leads to the directory above.
RECURSIVE Walk(_, _, _)
Walk(d, at, rest) ==
    IF rest = << >> THEN [ok |-> TRUE, path |-> at]
    ELSE Then(IF KindAt(d, at) = "symlink" THEN RepositoryCopy ELSE at,
              LAMBDA here :
                IF KindAt(d, here) # "dir" THEN Lost
                ELSE IF Head(rest) = ".."
                THEN IF here = << >> THEN Lost
                     ELSE Walk(d, SubSeq(here, 1, Len(here) - 1), Tail(rest))
                ELSE Walk(d, Append(here, Head(rest)), Tail(rest)))

\* fs::symlink_metadata(path), "absent" standing for Err(_)
SymlinkMetadataAt(d, p) ==
    LET w == Walk(d, << >>, p) IN IF w.ok THEN KindAt(d, w.path) ELSE "absent"

\* Path::exists(path): a final link is followed
ExistsAt(d, p) ==
    LET kind == SymlinkMetadataAt(d, p) IN
    IF kind = "symlink" THEN KindAt(d, RepositoryCopy) # "absent" ELSE kind # "absent"

\* The disk d with every missing path made a directory.
AllMade(d) == [ q \in DiskPaths |-> IF d[q] = "absent" THEN "dir" ELSE d[q] ]

\* fs::create_dir_all(path) goes through the prefixes of the path from the
\* shortest on: a missing directory is made, an existing one is passed, and
\* the call stops with Err at the first prefix where neither can be done.
\* The k-th prefix leads where it leads once the shorter ones are made.
CreateDirAllAt(d, p) ==
    LET reach(k) == Walk(AllMade(d), << >>, SubSeq(p, 1, k))
        kind(k) == KindAt(d, reach(k).path)
        good(k) == /\ reach(k).ok
                   /\ \/ kind(k) = "dir"
                      \/ kind(k) = "absent" /\ reach(k).path \in DiskPaths
                      \/ kind(k) = "symlink" /\ KindAt(d, RepositoryCopy) = "dir"
        bad == { k \in 1..Len(p) : ~good(k) }
        stop == IF bad = {} THEN Len(p) + 1
                ELSE CHOOSE k \in bad : \A j \in bad : k <= j
        made == { reach(k).path : k \in 1..(stop - 1) }
    IN  [ok |-> bad = {},
         disk |-> [ q \in DiskPaths |->
                      IF d[q] = "absent" /\ q \in made THEN "dir" ELSE d[q] ]]

\* symlink(global_skill_path, path)
SymlinkAt(d, p) ==
    LET w == Walk(d, << >>, p) IN
    IF w.ok /\ w.path \in DiskPaths /\ KindAt(d, w.path) = "absent"
    THEN [ok |-> TRUE, disk |-> [d EXCEPT ![w.path] = "symlink"]]
    ELSE [ok |-> FALSE, disk |-> d]

\* fs::remove_file(path)
RemoveFileAt(d, p) ==
    LET w == Walk(d, << >>, p) IN
    IF w.ok /\ KindAt(d, w.path) \in { "symlink", "file" }
    THEN [ok |-> TRUE, disk |-> [d EXCEPT ![w.path] = "absent"]]
    ELSE [ok |-> FALSE, disk |-> d]

\* fs::remove_dir_all(path): the directory and everything below it
RemoveDirAllAt(d, p) ==
    LET w == Walk(d, << >>, p) IN
    IF w.ok /\ w.path # << >> /\ KindAt(d, w.path) = "dir"
    THEN [ok |-> TRUE,
          disk |-> [q \in DiskPaths |->
                      IF Len(q) >= Len(w.path) /\ SubSeq(q, 1, Len(w.path)) = w.path
                      THEN "absent" ELSE d[q]]]
    ELSE [ok |-> FALSE, disk |-> d]

PathOk(d) == [disk |-> d, ok |-> TRUE, error |-> "", success |-> << >>, failed |-> << >>]
PathErr(d, error) ==
    [disk |-> d, ok |-> FALSE, error |-> error, success |-> << >>, failed |-> << >>]

\* toggle_skill(agent_id, skill_name, enable)
toggle_skill_paths(d, agent_id, skill_name, enable) ==
    IF agent_id \notin AgentIds THEN PathErr(d, "Agent not found")
    ELSE LET global_skill_path == GlobalSkillsPath \o skill_name
             agent_skill_path == AgentPath(agent_id) \o skill_name
         IN
         IF enable
         THEN IF ~ExistsAt(d, global_skill_path)
              THEN PathErr(d, "Global skill does not exist")
              ELSE \* the result of create_dir_all is discarded (let _ = ...)
                   LET parent == SubSeq(agent_skill_path, 1, Len(agent_skill_path) - 1) IN
                   Then(CreateDirAllAt(d, parent), LAMBDA made :
                   Then(SymlinkAt(made.disk, agent_skill_path), LAMBDA linked :
                        IF linked.ok THEN PathOk(linked.disk)
                        ELSE PathErr(linked.disk, "Failed to link")))
         ELSE IF SymlinkMetadataAt(d, agent_skill_path) # "absent"
              THEN LET removed == RemoveFileAt(d, agent_skill_path) IN
                   IF removed.ok THEN PathOk(removed.disk)
                   ELSE PathErr(removed.disk, "Failed to unlink")
              ELSE PathOk(d)

\* One iteration of the loop of link_skill_to_all_with_home, for a detected
\* agent
LinkDetectedAgentPaths(acc, id, skill_name) ==
    LET agent_skill_path == AgentPath(id) \o skill_name
        parent == SubSeq(agent_skill_path, 1, Len(agent_skill_path) - 1)
        probe == SymlinkMetadataAt(acc.disk, agent_skill_path)
    IN
    IF probe = "symlink" THEN [acc EXCEPT !.success = Append(@, id)]
    ELSE IF probe # "absent"
    THEN [acc EXCEPT !.failed = Append(@, FailedOperation(id,
              "A file or directory already exists at the target path"))]
    ELSE Then(CreateDirAllAt(acc.disk, parent), LAMBDA made :
           IF ~made.ok
           THEN [acc EXCEPT !.disk = made.disk,
                            !.failed = Append(@, FailedOperation(id,
                                "Failed to create parent directory"))]
           ELSE Then(SymlinkAt(made.disk, agent_skill_path), LAMBDA linked :
                  IF linked.ok
                  THEN [acc EXCEPT !.disk = linked.disk, !.success = Append(@, id)]
                  ELSE [acc EXCEPT !.disk = linked.disk,
                                   !.failed = Append(@, FailedOperation(id,
                                       "Failed to create symlink"))]))

\* The loop of link_skill_to_all_with_home from Catalog[i] on; `detected`
\* is what detect_agents_with_home saw before the loop.
RECURSIVE LinkLoopPaths(_, _, _, _)
LinkLoopPaths(acc, detected, i, skill_name) ==
    IF i > Len(Catalog) THEN acc
    ELSE Then(IF Catalog[i].id \in detected
              THEN LinkDetectedAgentPaths(acc, Catalog[i].id, skill_name)
              ELSE acc,
              LAMBDA next : LinkLoopPaths(next, detected, i + 1, skill_name))

link_skill_to_all_paths(d, skill_name) ==
    IF ~ExistsAt(d, GlobalSkillsPath \o skill_name)
    THEN PathErr(d, "Global skill does not exist")
    ELSE Then({ a \in AgentIds : ExistsAt(d, AgentPath(a)) }, LAMBDA detected :
         Then(LinkLoopPaths([disk |-> d, success |-> << >>, failed |-> << >>],
                            detected, 1, skill_name), LAMBDA done :
              [PathOk(done.disk) EXCEPT !.success = done.success, !.failed = done.failed]))

\* One iteration of the loop of unlink_skill_from_all_with_home
UnlinkAgentPaths(acc, id, skill_name) ==
    LET agent_skill_path == AgentPath(id) \o skill_name IN
    IF SymlinkMetadataAt(acc.disk, agent_skill_path) # "symlink" THEN acc
    ELSE Then(RemoveFileAt(acc.disk, agent_skill_path), LAMBDA removed :
           IF removed.ok
           THEN [acc EXCEPT !.disk = removed.disk, !.success = Append(@, id)]
           ELSE [acc EXCEPT !.failed = Append(@, FailedOperation(id,
                                "Failed to remove symlink"))])

\* The loop of unlink_skill_from_all_with_home from Catalog[i] on
RECURSIVE UnlinkLoopPaths(_, _, _)
UnlinkLoopPaths(acc, i, skill_name) ==
    IF i > Len(Catalog) THEN acc
    ELSE Then(UnlinkAgentPaths(acc, Catalog[i].id, skill_name),
              LAMBDA next : UnlinkLoopPaths(next, i + 1, skill_name))

unlink_skill_from_all_paths(d, skill_name) ==
    Then(UnlinkLoopPaths([disk |-> d, success |-> << >>, failed |-> << >>], 1, skill_name),
         LAMBDA done :
           [PathOk(done.disk) EXCEPT !.success = done.success, !.failed = done.failed])

\* delete_local_skill(agent_id, skill_name)
delete_local_skill_paths(d, agent_id, skill_name) ==
    IF agent_id \notin AgentIds THEN PathErr(d, "Agent not found")
    ELSE LET skill_path == AgentPath(agent_id) \o skill_name IN
         Then(SymlinkMetadataAt(d, skill_path), LAMBDA probe :
         CASE probe = "absent"  -> PathErr(d, "Skill directory not found")
           [] probe = "symlink" ->
                PathErr(d, "Cannot delete: this is a symlink, use unlink instead")
           [] probe = "dir"     ->
                Then(RemoveDirAllAt(d, skill_path), LAMBDA removed :
                     IF removed.ok THEN PathOk(removed.disk)
                     ELSE PathErr(removed.disk, "Failed to delete directory"))
           [] OTHER             -> PathErr(d, "Path is not a directory"))

\* upload_to_global(agent_id, skill_name); copy_dir_recursive makes the
\* destination with create_dir_all and only reads the source.
upload_to_global_paths(d, agent_id, skill_name) ==
    IF agent_id \notin AgentIds THEN PathErr(d, "Agent not found")
    ELSE LET local_skill_path == AgentPath(agent_id) \o skill_name
             global_skill_path == GlobalSkillsPath \o skill_name
         IN
         Then(SymlinkMetadataAt(d, local_skill_path), LAMBDA probe :
         CASE probe = "absent"  -> PathErr(d, "Local skill directory not found")
           [] probe = "symlink" -> PathErr(d, "Cannot upload: this is already a symlink")
           [] probe # "dir"     -> PathErr(d, "Path is not a directory")
           [] ExistsAt(d, global_skill_path) ->
                PathErr(d, "Skill already exists in global skills")
           [] OTHER ->
                Then(IF ExistsAt(d, GlobalSkillsPath) THEN [ok |-> TRUE, disk |-> d]
                     ELSE CreateDirAllAt(d, GlobalSkillsPath), LAMBDA rooted :
                  IF ~rooted.ok
                  THEN PathErr(rooted.disk, "Failed to create global skills directory")
                  ELSE Then(CreateDirAllAt(rooted.disk, global_skill_path), LAMBDA copied :
                         IF copied.ok THEN PathOk(copied.disk)
                         ELSE PathErr(copied.disk, "Failed to create directory"))))

NothingRan == [op |-> "none", agent_id |-> "", skill_name |-> << >>, enable |-> FALSE,
               ok |-> TRUE, error |-> "", success |-> << >>, failed |-> << >>]

PathInit ==
    /\ disk \in DiskStates
    /\ earlier = disk
    /\ ran = NothingRan
    /\ LinkUnused /\ DetectUnused /\ ViewUnused /\ ParserUnused /\ RaceUnused

\* The command op ran on disk with these arguments and returned r.
PathReturns(op, agent_id, skill_name, enable, r) ==
    /\ disk' = r.disk
    /\ earlier' = disk
    /\ ran' = [op |-> op, agent_id |-> agent_id, skill_name |-> skill_name,
               enable |-> enable, ok |-> r.ok, error |-> r.error,
               success |-> r.success, failed |-> r.failed]
    /\ UNCHANGED <<linkVars, detectVars, viewVars, parserVars, raceVars>>

ToggleSkillPaths ==
    \E a \in AgentInputs, n \in SkillNameInputs, enable \in BOOLEAN :
        PathReturns("toggle_skill", a, n, enable, toggle_skill_paths(disk, a, n, enable))

LinkSkillToAllPaths ==
    \E n \in SkillNameInputs :
        PathReturns("link_skill_to_all", "", n, FALSE, link_skill_to_all_paths(disk, n))

UnlinkSkillFromAllPaths ==
    \E n \in SkillNameInputs :
        PathReturns("unlink_skill_from_all", "", n, FALSE, unlink_skill_from_all_paths(disk, n))

DeleteLocalSkillPaths ==
    \E a \in AgentInputs, n \in SkillNameInputs :
        PathReturns("delete_local_skill", a, n, FALSE, delete_local_skill_paths(disk, a, n))

UploadToGlobalPaths ==
    \E a \in AgentInputs, n \in SkillNameInputs :
        PathReturns("upload_to_global", a, n, FALSE, upload_to_global_paths(disk, a, n))

PathNext ==
    \/ ToggleSkillPaths
    \/ LinkSkillToAllPaths
    \/ UnlinkSkillFromAllPaths
    \/ DeleteLocalSkillPaths
    \/ UploadToGlobalPaths

PathSpec == PathInit /\ [][PathNext]_vars

(* C30 as stated: no toggleSingle, linkToAll, unlinkFromAll or             *)
(* deleteLocalSkill call ever adds, removes or alters an entry of the      *)
(* global repository, and promoteLocalToGlobal only ever adds a new        *)
(* repository entry, never altering or removing an existing one nor the    *)
(* agent's local copy it was promoted from (no agent directory being a     *)
(* link into the repository).                                              *)
C30_AsStated ==
    /\ ran.op \in { "toggle_skill", "link_skill_to_all", "unlink_skill_from_all",
                    "delete_local_skill" } =>
          disk[RepositoryCopy] = earlier[RepositoryCopy]
    /\ ran.op = "upload_to_global" =>
          /\ earlier[RepositoryCopy] # "absent" => disk[RepositoryCopy] = earlier[RepositoryCopy]
          /\ \A p \in EntryPaths : disk[p] = earlier[p]

\* The calls that pass the plain name of the skill keep the repository: the
\* commands leave home/<agent path> only through the name they are given.
PlainNamesKeepRepository == (ran.skill_name = << PathSkill >>) => C30_AsStated

====
